---- MODULE Spec2Model ----
(***************************************************************************)
(* The task execution and result-chaining layer of the news-agent front    *)
(* end: apiCall and executeTask (src/src/config/api.ts) driven by the      *)
(* discoverer page's handleDiscover (src/src/app/news-discoverer/page.tsx),*)
(* against a backend that answers submissions synchronously or with a task *)
(* identifier, and the tab's localStorage; the classifier and exporter     *)
(* pages that read the discoverer's articles back from localStorage; the   *)
(* request apiCall builds; the session identity of SessionProvider; the    *)
(* classifier's results pane; the summarizer and the WebRAG page           *)
(* (src/unnamed/part_001); and the tab showing one page at a time.         *)
(***************************************************************************)
EXTENDS Integers, Sequences, FiniteSets, TLC

\* ------------------------------------------------------------------ bounds
MaxPolls == 2   \* the status-call counter saturates here (the loop itself is unbounded)
MaxClock == 1   \* the wall clock reads at most this

\* discoverer page instances sharing one localStorage, each running one
\* executeTask at a time; Solo is the one that acts when a single page is open
Calls == {1, 2}
Solo == {1}

\* the exporter page, whose handleExport runs executeTask as well, and the
\* classifier page, whose handleClassify calls apiCall directly
Exporter == 3
Classifier == 4
Readers == {Exporter, Classifier}

\* the summarizer and the WebRAG page, and the dashboard the tab opens on
Summarizer == 5
WebRag == 6
Home == 0
Pages == Calls \cup Readers \cup {Summarizer, WebRag}

\* ------------------------------------------------------- JavaScript values
JUndefined == [t |-> "undefined"]
JNull == [t |-> "null"]
JStr(s) == [t |-> "str", s |-> s]
JNum(n) == [t |-> "num", n |-> n]
JList(items) == [t |-> "list", items |-> items]
JObj(f) == [t |-> "obj", f |-> f]

\* a response body that is not JSON text
Malformed == [t |-> "malformed"]

IsNullish(v) == v.t \in {"undefined", "null"}

\* v.k for a v that is neither null nor undefined
Get(v, k) == IF v.t = "obj" /\ k \in DOMAIN v.f THEN v.f[k] ELSE JUndefined

\* v?.k
OptGet(v, k) == IF IsNullish(v) THEN JUndefined ELSE Get(v, k)

\* ToBoolean(v)
Truthy(v) ==
    /\ ~IsNullish(v)
    /\ ~(v.t = "str" /\ v.s = "")
    /\ ~(v.t = "num" /\ v.n = 0)

IsArray(v) == v.t = "list"

\* ---------------------------------------------------- completion records
Return(v) == [kind |-> "return", value |-> v]
Throw(name, message) == [kind |-> "throw", name |-> name, message |-> message]
Pending == [kind |-> "pending"]

\* error messages
ApiErrorMessage(status, statusText) ==
    [text |-> "API Error", status |-> status, statusText |-> statusText]
Msg(text) == [text |-> text]

\* ------------------------------------------------------------------- HTTP
Http(status, statusText, body) ==
    [status |-> status, statusText |-> statusText, body |-> body]
\* fetch itself rejected: no response at all
FetchFailed == [failed |-> TRUE]

\* Response.ok
ResponseOk(status) == status >= 200 /\ status <= 299

\* ------------------------------------------------------------ the backend
TaskIds == {"t1", "t2"}
\* the order in which the backend hands out identifiers
TaskOrder == <<"t1", "t2">>
Articles == {"a1", "a2"}

\* bodies the backend gives a submission it answers synchronously
SyncBodies ==
    { JNull,
      JList(<<"a1">>),
      JObj([articles |-> JList(<<"a1", "a2">>), total_found |-> JNum(2)]),
      JObj([task_id |-> JStr("")]) }

\* payloads a completed task can hold
ResultBodies ==
    { JList(<<"a2">>),
      JObj([articles |-> JList(<<"a2">>), total_found |-> JNum(1)]),
      JObj([articles |-> JList(<<>>), total_found |-> JNum(0)]) }

\* the error field of a failed task: absent, empty, or a message
TaskErrors == {JUndefined, JStr(""), JStr("timeout upstream")}

\* non-success responses, with an unparsable and with a parsable body
ErrorResponses ==
    { Http(404, "Not Found", Malformed),
      Http(500, "Internal Server Error", JObj([task_id |-> JStr("t1")])) }

\* a success status whose body is not JSON
Garbled == Http(200, "OK", Malformed)

FreeTask == [status |-> "free", result |-> JUndefined, error |-> JUndefined]

\* the body of GET /api/tasks/{id}
StatusBody(task) ==
    IF task.status = "failed" /\ task.error # JUndefined
    THEN JObj([status |-> JStr(task.status), error |-> task.error])
    ELSE JObj([status |-> JStr(task.status)])

\* ------------------------------------------------------------- the client
Queries == {"q1", "q2"}
NoPayload == [query |-> "", days_back |-> 0, max_articles |-> 0]

NoItem == [present |-> FALSE]
Item(v) == [present |-> TRUE, v |-> v]

\* alert(prefix + message); a handler that raised none leaves NoAlert
NoAlert == [prefix |-> "", message |-> Msg("")]
Alert(prefix, message) == [prefix |-> prefix, message |-> message]

\* the text each page puts before the message of the error it caught
FailurePrefix(c) ==
    IF c = Exporter THEN "Failed to export articles: "
    ELSE IF c = Classifier THEN "Failed to classify articles: "
    ELSE IF c = Summarizer THEN "Failed to summarize: "
    ELSE "Failed to discover news: "

\* apiCall called with no options object to inspect yet, and fetch not yet called
NoOptions == [given |-> FALSE]
NotSent == [called |-> FALSE]

\* setTimeout(resolve, 2000) in pollForResults
PollInterval == 2000
NoTimer == [armed |-> FALSE]

\* a timeout set without its delay, which fires at once
Armed_NoDelay(ms) == [armed |-> TRUE, delay |-> 0]

Armed(ms) == [armed |-> TRUE, delay |-> ms]

\* the WebRAG page as it loads: empty text boxes, no session id, nothing
\* ingested, and an empty message list, of which the model keeps the role of
\* the last entry
RagStart ==
    [urlsText |-> <<>>, ingestLoading |-> FALSE, qaLoading |-> FALSE,
     sessionId |-> JNull, chunksCreated |-> JNull, question |-> <<>>, lastMessage |-> ""]

\* no SessionProvider is mounted; a consumer that has not called useSession
Unmounted == [mounted |-> FALSE]
NotRead == [read |-> FALSE]

VARIABLES
    pc,               \* per call: where executeTask is suspended
    initialResponse,  \* per call: the parsed submission response
    status,           \* per call: the last parsed status object
    outcome,          \* per call: how executeTask completed
    issued,           \* per call: requests issued so far, by kind
    net,              \* requests and responses in flight
    tasks,            \* the backend's task table
    loading,          \* per page: the loading flag
    result,           \* per page: the displayed result
    query,            \* per page: the query text box
    payload,          \* per page: the payload built by handleDiscover
    store,            \* localStorage: the three bynd:last_discovered_* keys
    tight,            \* localStorage is near its quota: a setItem may throw
    now,              \* the last reading of the wall clock
    alerted,          \* per page: the alert its last handler run raised
    published,        \* the article list of the last setItem that succeeded
    articlesText,     \* classifier and exporter: the articles text area
    discovered,       \* classifier and exporter: the discovered list
    mounted,          \* the exporter page's mount effect has run
    options,          \* the options a caller hands to apiCall
    sent,             \* the init object apiCall handed to fetch
    session,          \* SessionProvider's state: userId and sessionId
    seen,             \* per consumer: what useSession last gave it
    lastSet,          \* per field: the last value a setter was called with
    route,            \* the page the tab shows
    url,              \* summarizer: the URL text box
    rag,              \* WebRAG page: its text boxes, flags and session id
    timer             \* per call: the timeout pollForResults has armed

\* the state of the summarizer and of the WebRAG page, and the route
beside == <<route, url, rag>>

\* what the discoverer page and executeTask leave alone, but for the timer
apart == <<articlesText, discovered, mounted, options, sent, session, seen, lastSet, beside>>

\* what the discoverer page leaves alone
aside == <<apart, timer>>

vars == <<pc, initialResponse, status, outcome, issued, net, tasks,
          loading, result, query, payload, store, tight, now, alerted, published, aside>>

Req(c, kind, id) == [call |-> c, dir |-> "req", kind |-> kind, id |-> id]
Resp(c, kind, id, r) == [call |-> c, dir |-> "resp", kind |-> kind, id |-> id, resp |-> r]

InFlight(c) == {m \in net : m.call = c}

\* apiCall that rejects only the server-error statuses
apiCall_ServerErrorsOnly(r) ==
    IF r = FetchFailed THEN Throw("TypeError", Msg("Failed to fetch"))
    ELSE IF r.status >= 500
         THEN Throw("Error", ApiErrorMessage(r.status, r.statusText))
    ELSE IF r.body = Malformed THEN Throw("SyntaxError", Msg("Unexpected token"))
    ELSE Return(r.body)

\* apiCall that reports a body it cannot parse as it reports a status
apiCall_DecodeAsApiError(r) ==
    IF r = FetchFailed THEN Throw("TypeError", Msg("Failed to fetch"))
    ELSE IF ~ResponseOk(r.status) \/ r.body = Malformed
         THEN Throw("Error", ApiErrorMessage(r.status, r.statusText))
    ELSE Return(r.body)

\* apiCall, from the response fetch produced to what the caller's await sees
apiCall(r) ==
    IF r = FetchFailed THEN Throw("TypeError", Msg("Failed to fetch"))
    ELSE IF ~ResponseOk(r.status)
         THEN Throw("Error", ApiErrorMessage(r.status, r.statusText))
    ELSE IF r.body = Malformed THEN Throw("SyntaxError", Msg("Unexpected token"))
    ELSE Return(r.body)

\* reading a property of null
NullAccess == Throw("TypeError", Msg("Cannot read properties of null"))

\* if (initialResponse.task_id)
HasTaskId(v) == Truthy(Get(v, "task_id"))
TaskIdOf(v) == Get(v, "task_id").s

\* a task identifier kept in one variable shared by all calls
PolledId_Shared(c) ==
    TaskIdOf(initialResponse[CHOOSE d \in Calls : HasTaskId(initialResponse[d])])

\* initialResponse.task_id as the closure pollForResults reads it
PolledId(c) == TaskIdOf(initialResponse[c])

\* pollForResults that compares the status with a misspelt word
PollDecision_Misspelt(st) ==
    IF Get(st, "status") = JStr("complete") THEN "result"
    ELSE IF Get(st, "status") = JStr("failed") THEN "fail"
    ELSE "wait"

\* pollForResults that fetches the result as soon as the task has left pending
PollDecision_Eager(st) ==
    IF Get(st, "status") = JStr("failed") THEN "fail"
    ELSE IF Get(st, "status") # JStr("pending") THEN "result"
    ELSE "wait"

\* pollForResults that has no branch for a failed task
PollDecision_FailedIgnored(st) ==
    IF Get(st, "status") = JStr("completed") THEN "result" ELSE "wait"

\* pollForResults that goes on only while the task is pending or running
PollDecision_UnknownFails(st) ==
    IF Get(st, "status") = JStr("completed") THEN "result"
    ELSE IF Get(st, "status") \in {JStr("pending"), JStr("running")} THEN "wait"
    ELSE "fail"

\* the branch pollForResults takes on a status object
PollDecision(st) ==
    IF Get(st, "status") = JStr("completed") THEN "result"
    ELSE IF Get(st, "status") = JStr("failed") THEN "fail"
    ELSE "wait"

\* a failure that drops the backend's message
TaskFailure_Generic(st) == Throw("Error", Msg("Task failed"))

\* new Error(status.error || 'Task failed')
TaskFailure(st) ==
    Throw("Error", IF Truthy(Get(st, "error")) THEN Msg(Get(st, "error").s)
                   ELSE Msg("Task failed"))

\* the status-call counter saturates at MaxPolls
Bump(n) == IF n < MaxPolls THEN n + 1 ELSE n

\* JSON.stringify that writes the items of a list without separators
Stringify_Unseparated(list) == <<"[">> \o list.items \o <<"]">>

RECURSIVE Join(_)
Join(items) ==
    IF Len(items) = 0 THEN <<>>
    ELSE IF Len(items) = 1 THEN <<items[1]>>
    ELSE <<items[1], ",">> \o Join(Tail(items))

\* JSON.stringify of an article list, as the token string it produces
Stringify(list) == <<"[">> \o Join(list.items) \o <<"]">>

\* a persist step that also takes a result that is itself a list
ArticlesOf_BareList(data) ==
    IF IsArray(data) THEN data
    ELSE IF IsArray(OptGet(data, "articles")) THEN OptGet(data, "articles")
    ELSE JList(<<>>)

\* Array.isArray(data?.articles) ? data.articles : []
ArticlesOf(data) ==
    IF IsArray(OptGet(data, "articles")) THEN OptGet(data, "articles") ELSE JList(<<>>)

\* a persist step that writes the articles key only while it is missing
Persist_OnlyOnce(st, data, q, at, k) ==
    [articles |-> IF k >= 1 /\ ~st.articles.present
                  THEN Item(Stringify(ArticlesOf(data))) ELSE st.articles,
     query    |-> IF k >= 2 THEN Item(q) ELSE st.query,
     at       |-> IF k >= 3 THEN Item(at) ELSE st.at]

\* the three setItem calls of handleDiscover, of which the first k succeed
Persist(st, data, q, at, k) ==
    [articles |-> IF k >= 1 THEN Item(Stringify(ArticlesOf(data))) ELSE st.articles,
     query    |-> IF k >= 2 THEN Item(q) ELSE st.query,
     at       |-> IF k >= 3 THEN Item(at) ELSE st.at]

\* localStorage of a profile in which nothing was ever discovered
EmptyStore == [articles |-> NoItem, query |-> NoItem, at |-> NoItem]

\* every page freshly loaded, over the localStorage st, and an apiCall
\* about to be made with the options opt
Start(st, opt) ==
    /\ pc = [c \in Pages |-> "idle"]
    /\ initialResponse = [c \in Pages |-> JUndefined]
    /\ status = [c \in Pages |-> JUndefined]
    /\ outcome = [c \in Pages |-> Pending]
    /\ issued = [c \in Pages |-> [submit |-> 0, status |-> 0, result |-> 0]]
    /\ net = {}
    /\ tasks = [t \in TaskIds |-> FreeTask]
    /\ loading = [c \in Pages |-> FALSE]
    /\ result = [c \in Pages |-> JNull]
    /\ query = [c \in Calls |-> ""]
    /\ payload = [c \in Pages |-> NoPayload]
    /\ store = st
    /\ tight = FALSE
    /\ now = 0
    /\ alerted = [c \in Pages |-> NoAlert]
    /\ published = JUndefined
    /\ articlesText = [p \in Readers |-> <<>>]
    /\ discovered = [p \in Readers |-> JList(<<>>)]
    /\ mounted = FALSE
    /\ options = opt
    /\ sent = NotSent
    /\ session = Unmounted
    /\ seen = [p \in Pages |-> NotRead]
    /\ lastSet = [userId |-> "", sessionId |-> ""]
    /\ route = Home
    /\ url = <<>>
    /\ rag = RagStart
    /\ timer = [c \in Pages |-> NoTimer]

Init == Start(EmptyStore, NoOptions)

\* ---------------------------------------------------------------- actions
\* how many of the three setItem calls localStorage can accept before it throws
Accepted == IF tight THEN 0..3 ELSE {3}

\* what new Date() can read: the clock never runs backwards
ClockReadings == {t \in now..(now + 1) : t <= MaxClock}

\* handleDiscover with the persist step moved to its finally block
AfterExecute_PersistAlways(c, o) ==
    /\ outcome' = [outcome EXCEPT ![c] = o]
    /\ pc' = [pc EXCEPT ![c] = "done"]
    /\ loading' = [loading EXCEPT ![c] = FALSE]
    /\ payload' = [payload EXCEPT ![c] = NoPayload]
    /\ result' = [result EXCEPT ![c] = IF o.kind = "return" THEN o.value ELSE @]
    /\ alerted' = [alerted EXCEPT ![c] =
                     IF o.kind = "return" THEN @ ELSE Alert(FailurePrefix(c), o.message)]
    /\ \E k \in Accepted, t \in ClockReadings :
         /\ store' = Persist(store, IF o.kind = "return" THEN o.value ELSE JUndefined,
                             payload[c].query, t, k)
         /\ now' = IF k >= 2 THEN t ELSE now
         /\ published' = IF k >= 1 THEN ArticlesOf(IF o.kind = "return" THEN o.value
                                                   ELSE JUndefined)
                          ELSE published

\* what the page does once executeTask has completed with o: setResult on a
\* value, the alert on an error, and setLoading(false) either way; and in
\* handleDiscover the persist step on a value, which handleExport has not
AfterExecute(c, o) ==
    /\ outcome' = [outcome EXCEPT ![c] = o]
    /\ pc' = [pc EXCEPT ![c] = "done"]
    /\ loading' = [loading EXCEPT ![c] = FALSE]
    /\ payload' = [payload EXCEPT ![c] = NoPayload]
    /\ IF o.kind = "return"
       THEN /\ result' = [result EXCEPT ![c] = o.value]
            /\ UNCHANGED alerted
            /\ IF c = Exporter
               THEN UNCHANGED <<store, now, published>>
               ELSE \E k \in Accepted, t \in ClockReadings :
                      /\ store' = Persist(store, o.value, payload[c].query, t, k)
                      /\ now' = IF k >= 2 THEN t ELSE now
                      /\ published' = IF k >= 1 THEN ArticlesOf(o.value) ELSE published
       ELSE /\ alerted' = [alerted EXCEPT ![c] = Alert(FailurePrefix(c), o.message)]
            /\ UNCHANGED <<result, store, now, published>>

\* the query text box
SetQuery(c, q) ==
    /\ query[c] # q
    /\ query' = [query EXCEPT ![c] = q]
    /\ UNCHANGED <<pc, initialResponse, status, outcome, issued, net, tasks,
                   loading, result, payload, store, tight, now, alerted, published, aside>>

\* the Discover button: handleDiscover up to the await of the submission
Discover(c) ==
    /\ ~loading[c]
    /\ query[c] # ""
    /\ loading' = [loading EXCEPT ![c] = TRUE]
    /\ result' = [result EXCEPT ![c] = JNull]
    /\ payload' = [payload EXCEPT ![c] =
                     [query |-> query[c], days_back |-> 7, max_articles |-> 50]]
    /\ pc' = [pc EXCEPT ![c] = "submit"]
    /\ initialResponse' = [initialResponse EXCEPT ![c] = JUndefined]
    /\ status' = [status EXCEPT ![c] = JUndefined]
    /\ outcome' = [outcome EXCEPT ![c] = Pending]
    /\ issued' = [issued EXCEPT ![c] = [submit |-> 1, status |-> 0, result |-> 0]]
    /\ net' = net \cup {Req(c, "submit", "")}
    /\ tasks' = [t \in TaskIds |->
                   IF HasTaskId(initialResponse[c]) /\ t = TaskIdOf(initialResponse[c])
                   THEN FreeTask ELSE tasks[t]]
    /\ alerted' = [alerted EXCEPT ![c] = NoAlert]
    /\ UNCHANGED <<query, store, tight, now, published, aside>>

\* pollForResults up to the await of the status call
IssueStatus(c, id, consumed) ==
    /\ pc' = [pc EXCEPT ![c] = "status"]
    /\ issued' = [issued EXCEPT ![c].status = Bump(@)]
    /\ net' = (net \ consumed) \cup {Req(c, "status", id)}

\* the submission response arrives: executeTask lines 49-54 and 70-74
OnSubmitResponse(c) ==
    \E m \in InFlight(c) :
      /\ pc[c] = "submit"
      /\ m.dir = "resp" /\ m.kind = "submit"
      /\ LET r == apiCall(m.resp) IN
         IF r.kind = "throw"
         THEN /\ AfterExecute(c, r)
              /\ net' = net \ {m}
              /\ UNCHANGED <<initialResponse, status, issued>>
         ELSE /\ initialResponse' = [initialResponse EXCEPT ![c] = r.value]
              /\ IF r.value = JNull
                 THEN /\ AfterExecute(c, NullAccess)
                      /\ net' = net \ {m}
                      /\ UNCHANGED <<status, issued>>
                 ELSE IF HasTaskId(r.value)
                 THEN /\ IssueStatus(c, PolledId(c)', {m})
                      /\ UNCHANGED <<status, outcome, loading, result, payload, store, tight, now, alerted, published, aside>>
                 ELSE /\ AfterExecute(c, Return(r.value))
                      /\ net' = net \ {m}
                      /\ UNCHANGED <<status, issued>>
      /\ UNCHANGED <<tasks, query, tight, aside>>

\* pollForResults that treats a failed status call as "still running"
OnStatusResponse_Retry(c) ==
    \E m \in InFlight(c) :
      /\ pc[c] = "status"
      /\ m.dir = "resp" /\ m.kind = "status"
      /\ LET r == apiCall(m.resp) IN
         IF r.kind = "throw" \/ r.value = JNull
         THEN /\ pc' = [pc EXCEPT ![c] = "wait"]
              /\ timer' = [timer EXCEPT ![c] = Armed(PollInterval)]
              /\ net' = net \ {m}
              /\ UNCHANGED <<status, issued, outcome, loading, result, payload, store, tight, now, alerted, published, apart>>
         ELSE /\ status' = [status EXCEPT ![c] = r.value]
              /\ IF PollDecision(r.value) = "result"
                 THEN /\ pc' = [pc EXCEPT ![c] = "result"]
                      /\ issued' = [issued EXCEPT ![c].result = @ + 1]
                      /\ net' = (net \ {m}) \cup {Req(c, "result", PolledId(c))}
                      /\ UNCHANGED <<outcome, loading, result, payload, store, tight, now, alerted, published, aside>>
                 ELSE IF PollDecision(r.value) = "fail"
                 THEN /\ AfterExecute(c, TaskFailure(r.value))
                      /\ net' = net \ {m}
                      /\ UNCHANGED <<issued, timer>>
                 ELSE /\ pc' = [pc EXCEPT ![c] = "wait"]
                      /\ timer' = [timer EXCEPT ![c] = Armed(PollInterval)]
                      /\ net' = net \ {m}
                      /\ UNCHANGED <<issued, outcome, loading, result, payload, store, tight, now, alerted, published, apart>>
      /\ UNCHANGED <<initialResponse, tasks, query, tight, apart>>

\* a status response arrives: pollForResults lines 57-67
OnStatusResponse(c) ==
    \E m \in InFlight(c) :
      /\ pc[c] = "status"
      /\ m.dir = "resp" /\ m.kind = "status"
      /\ LET r == apiCall(m.resp) IN
         IF r.kind = "throw"
         THEN /\ AfterExecute(c, r)
              /\ net' = net \ {m}
              /\ UNCHANGED <<status, issued, timer>>
         ELSE /\ status' = [status EXCEPT ![c] = r.value]
              /\ IF r.value = JNull
                 THEN /\ AfterExecute(c, NullAccess)
                      /\ net' = net \ {m}
                      /\ UNCHANGED <<issued, timer>>
                 ELSE IF PollDecision(r.value) = "result"
                 THEN /\ pc' = [pc EXCEPT ![c] = "result"]
                      /\ issued' = [issued EXCEPT ![c].result = @ + 1]
                      /\ net' = (net \ {m}) \cup
                                  {Req(c, "result", PolledId(c))}
                      /\ UNCHANGED <<outcome, loading, result, payload, store, tight, now, alerted, published, aside>>
                 ELSE IF PollDecision(r.value) = "fail"
                 THEN /\ AfterExecute(c, TaskFailure(r.value))
                      /\ net' = net \ {m}
                      /\ UNCHANGED <<issued, timer>>
                 ELSE /\ pc' = [pc EXCEPT ![c] = "wait"]
                      /\ timer' = [timer EXCEPT ![c] = Armed(PollInterval)]
                      /\ net' = net \ {m}
                      /\ UNCHANGED <<issued, outcome, loading, result, payload, store, tight, now, alerted, published, apart>>
      /\ UNCHANGED <<initialResponse, tasks, query, tight, apart>>

\* an interval timer, which fires whether or not a status call is outstanding
TimerFires_Interval(c) ==
    /\ pc[c] \in {"status", "wait"}
    /\ IssueStatus(c, PolledId(c), {})
    /\ timer' = [timer EXCEPT ![c] = NoTimer]
    /\ UNCHANGED <<initialResponse, status, outcome, tasks,
                   loading, result, query, payload, store, tight, now, alerted, published, apart>>

\* the 2-second timer fires: pollForResults calls itself
TimerFires(c) ==
    /\ pc[c] = "wait"
    /\ timer[c].armed
    /\ IssueStatus(c, PolledId(c), {})
    /\ timer' = [timer EXCEPT ![c] = NoTimer]
    /\ UNCHANGED <<initialResponse, status, outcome, tasks,
                   loading, result, query, payload, store, tight, now, alerted, published, apart>>

\* pollForResults that returns the status object it has in hand
OnResultResponse_ReturnsStatus(c) ==
    \E m \in InFlight(c) :
      /\ pc[c] = "result"
      /\ m.dir = "resp" /\ m.kind = "result"
      /\ AfterExecute(c, IF apiCall(m.resp).kind = "return"
                         THEN Return(status[c]) ELSE apiCall(m.resp))
      /\ net' = net \ {m}
      /\ UNCHANGED <<initialResponse, status, issued, tasks, query, tight, aside>>

\* the result response arrives: return await apiCall(TASK_RESULT(...))
OnResultResponse(c) ==
    \E m \in InFlight(c) :
      /\ pc[c] = "result"
      /\ m.dir = "resp" /\ m.kind = "result"
      /\ AfterExecute(c, apiCall(m.resp))
      /\ net' = net \ {m}
      /\ UNCHANGED <<initialResponse, status, issued, tasks, query, tight, aside>>

\* ------------------------------------------------------------ environment
\* task identifiers no call holds a handle to
HeldIds == {TaskIdOf(initialResponse[c]) : c \in {d \in Pages : HasTaskId(initialResponse[d])}}

Answer(m, r) == net' = (net \ {m}) \cup {Resp(m.call, m.kind, m.id, r)}

\* the submission of call c answered at once with one of the responses rs
AnswerSubmit(c, rs) ==
    \E m \in InFlight(c) :
      /\ m.dir = "req" /\ m.kind = "submit"
      /\ \E r \in rs : Answer(m, r)
      /\ UNCHANGED <<pc, initialResponse, status, outcome, issued, tasks,
                     loading, result, query, payload, store, tight, now, alerted, published, aside>>

\* POST /api/news/discoverer answered with a result, a garbled body or an error
AnswerSubmitSync(c) ==
    AnswerSubmit(c, {Http(200, "OK", b) : b \in SyncBodies}
                      \cup ErrorResponses \cup {Garbled, FetchFailed})

\* POST /api/news/discoverer answered with a result
AnswerSubmitOk(c) == AnswerSubmit(c, {Http(200, "OK", b) : b \in SyncBodies})

\* bodies the backend gives an export it answers synchronously
ExportBodies == { JObj([exported_count |-> JNum(2), format |-> JStr("csv")]) }

\* POST /api/news/exporter answered with a result or an error
AnswerExport ==
    AnswerSubmit(Exporter, {Http(200, "OK", b) : b \in ExportBodies}
                             \cup {Http(500, "Internal Server Error", Malformed)})

\* POST /api/news/discoverer answered with the handle of a new task
AnswerSubmitAsync(c) ==
    \E m \in InFlight(c) :
      /\ m.dir = "req" /\ m.kind = "submit"
      /\ \E t \in TaskIds \ HeldIds :
           /\ tasks[t].status = "free"
           /\ \A i, j \in 1..Len(TaskOrder) :
                (TaskOrder[j] = t /\ i < j) => TaskOrder[i] \in HeldIds
           /\ tasks' = [tasks EXCEPT ![t] = [FreeTask EXCEPT !.status = "pending"]]
           /\ Answer(m, Http(200, "OK", JObj([task_id |-> JStr(t)])))
      /\ UNCHANGED <<pc, initialResponse, status, outcome, issued,
                     loading, result, query, payload, store, tight, now, alerted, published, aside>>

\* the backend works on a task
BackendStep(t) ==
    /\ \/ /\ tasks[t].status = "pending"
          /\ tasks' = [tasks EXCEPT ![t].status = "running"]
       \/ /\ tasks[t].status = "running"
          /\ \/ \E b \in ResultBodies :
                  tasks' = [tasks EXCEPT ![t].status = "completed", ![t].result = b]
             \/ \E e \in TaskErrors :
                  tasks' = [tasks EXCEPT ![t].status = "failed", ![t].error = e]
             \/ tasks' = [tasks EXCEPT ![t].status = "cancelled"]
    /\ UNCHANGED <<pc, initialResponse, status, outcome, issued, net,
                   loading, result, query, payload, store, tight, now, alerted, published, aside>>

\* GET /api/tasks/{id} answered with the task's status
ReportStatus(c) ==
    \E m \in InFlight(c) :
      /\ m.dir = "req" /\ m.kind = "status"
      /\ Answer(m, IF m.id \in TaskIds /\ tasks[m.id].status # "free"
                   THEN Http(200, "OK", StatusBody(tasks[m.id]))
                   ELSE Http(404, "Not Found", Malformed))
      /\ UNCHANGED <<pc, initialResponse, status, outcome, issued, tasks,
                     loading, result, query, payload, store, tight, now, alerted, published, aside>>

\* GET /api/tasks/{id} answered with something else: an error, a garbled
\* body, null, or an object without a status field
AnswerStatusOther(c) ==
    \E m \in InFlight(c) :
      /\ m.dir = "req" /\ m.kind = "status"
      /\ \E r \in ErrorResponses \cup
                    {Garbled, FetchFailed, Http(200, "OK", JNull),
                     Http(200, "OK", JObj([progress |-> JNum(1)]))} :
           Answer(m, r)
      /\ UNCHANGED <<pc, initialResponse, status, outcome, issued, tasks,
                     loading, result, query, payload, store, tight, now, alerted, published, aside>>

\* GET /api/tasks/{id}/result answered from the task table
DeliverResult(c) ==
    \E m \in InFlight(c) :
      /\ m.dir = "req" /\ m.kind = "result"
      /\ Answer(m, IF m.id \in TaskIds /\ tasks[m.id].status = "completed"
                   THEN Http(200, "OK", tasks[m.id].result)
                   ELSE Http(404, "Not Found", Malformed))
      /\ UNCHANGED <<pc, initialResponse, status, outcome, issued, tasks,
                     loading, result, query, payload, store, tight, now, alerted, published, aside>>

\* GET /api/tasks/{id}/result answered with an error or a garbled body
AnswerResultOther(c) ==
    \E m \in InFlight(c) :
      /\ m.dir = "req" /\ m.kind = "result"
      /\ \E r \in ErrorResponses \cup {Garbled, FetchFailed} : Answer(m, r)
      /\ UNCHANGED <<pc, initialResponse, status, outcome, issued, tasks,
                     loading, result, query, payload, store, tight, now, alerted, published, aside>>

\* other writers fill localStorage up to its quota, or free it again
StoragePressure ==
    /\ tight' = ~tight
    /\ UNCHANGED <<pc, initialResponse, status, outcome, issued, net, tasks,
                   loading, result, query, payload, store, now, alerted, published, aside>>

\* one page open, and everything the backend, the store and the clock can do
Next ==
    \/ \E c \in Solo, q \in Queries : SetQuery(c, q)
    \/ \E c \in Solo : Discover(c)
    \/ \E c \in Solo : OnSubmitResponse(c)
    \/ \E c \in Solo : OnStatusResponse(c)
    \/ \E c \in Solo : TimerFires(c)
    \/ \E c \in Solo : OnResultResponse(c)
    \/ \E c \in Solo : AnswerSubmitSync(c)
    \/ \E c \in Solo : AnswerSubmitAsync(c)
    \/ \E t \in TaskIds : BackendStep(t)
    \/ \E c \in Solo : ReportStatus(c)
    \/ \E c \in Solo : AnswerStatusOther(c)
    \/ \E c \in Solo : DeliverResult(c)
    \/ \E c \in Solo : AnswerResultOther(c)
    \/ StoragePressure

Spec == Init /\ [][Next]_vars

\* what the user of each page types when each page runs one query
TypedIn(c) == IF c = 1 THEN "q1" ELSE "q2"

\* one page open running one query, with room in localStorage, and
\* everything the backend can do
NextLive ==
    \/ \E c \in Solo : SetQuery(c, TypedIn(c))
    \/ \E c \in Solo : Discover(c)
    \/ \E c \in Solo : OnSubmitResponse(c)
    \/ \E c \in Solo : OnStatusResponse(c)
    \/ \E c \in Solo : TimerFires(c)
    \/ \E c \in Solo : OnResultResponse(c)
    \/ \E c \in Solo : AnswerSubmitSync(c)
    \/ \E c \in Solo : AnswerSubmitAsync(c)
    \/ \E t \in TaskIds : BackendStep(t)
    \/ \E c \in Solo : ReportStatus(c)
    \/ \E c \in Solo : AnswerStatusOther(c)
    \/ \E c \in Solo : DeliverResult(c)
    \/ \E c \in Solo : AnswerResultOther(c)

\* the event loop runs every continuation and timer that is ready, every
\* result call is answered, and the backend reports a task's status to a
\* status call again and again
Fairness ==
    \A c \in Solo :
      /\ WF_vars(OnSubmitResponse(c))
      /\ WF_vars(OnStatusResponse(c))
      /\ WF_vars(TimerFires(c))
      /\ WF_vars(OnResultResponse(c))
      /\ WF_vars(DeliverResult(c) \/ AnswerResultOther(c))
      /\ SF_vars(ReportStatus(c))

SpecLive == Init /\ [][NextLive]_vars /\ Fairness


\* two pages open at once, against a backend that answers every submission
\* with a task handle and every status and result call from its task table
NextPair ==
    \/ \E c \in Calls : SetQuery(c, TypedIn(c))
    \/ \E c \in Calls : Discover(c)
    \/ \E c \in Calls : OnSubmitResponse(c)
    \/ \E c \in Calls : OnStatusResponse(c)
    \/ \E c \in Calls : TimerFires(c)
    \/ \E c \in Calls : OnResultResponse(c)
    \/ \E c \in Calls : AnswerSubmitAsync(c)
    \/ \E t \in TaskIds : BackendStep(t)
    \/ \E c \in Calls : ReportStatus(c)
    \/ \E c \in Calls : DeliverResult(c)

SpecPair == Init /\ [][NextPair]_vars

TypeOK ==
    /\ \A c \in Calls : pc[c] \in {"idle", "submit", "status", "wait", "result", "done"}
    /\ now \in 0..MaxClock
    /\ tight \in BOOLEAN

\* ------------------------------------------------- reading the store back
\* white space in a text, which JSON.parse skips between tokens
Blank == " "

RECURSIVE Squeeze(_)
Squeeze(text) ==
    IF Len(text) = 0 THEN <<>>
    ELSE IF Head(text) = Blank THEN Squeeze(Tail(text))
    ELSE <<Head(text)>> \o Squeeze(Tail(text))

\* !text.trim()
IsBlank(text) == \A i \in 1..Len(text) : text[i] = Blank

\* JSON.parse threw a SyntaxError
Unparsable == [t |-> "unparsable"]

\* JSON.parse of the tokens of an array of articles
ParseArray(ts) ==
    IF Len(ts) < 2 \/ ts[1] # "[" \/ ts[Len(ts)] # "]" THEN Unparsable
    ELSE LET inner == SubSeq(ts, 2, Len(ts) - 1) IN
         IF Len(inner) = 0 THEN JList(<<>>)
         ELSE IF /\ Len(inner) % 2 = 1
                 /\ \A i \in 1..Len(inner) :
                      IF i % 2 = 1 THEN inner[i] \in Articles ELSE inner[i] = ","
         THEN JList([i \in 1..((Len(inner) + 1) \div 2) |-> inner[2 * i - 1]])
         ELSE Unparsable

\* JSON.parse of a text: null, an array of articles, or an object whose
\* articles field is one
Parse(text) ==
    LET ts == Squeeze(text) IN
    IF ts = <<"null">> THEN JNull
    ELSE IF Len(ts) >= 1 /\ ts[1] = "[" THEN ParseArray(ts)
    ELSE IF /\ Len(ts) >= 5
            /\ SubSeq(ts, 1, 3) = <<"{", "articles", ":">>
            /\ ts[Len(ts)] = "}"
            /\ ParseArray(SubSeq(ts, 4, Len(ts) - 1)) # Unparsable
         THEN JObj([articles |-> ParseArray(SubSeq(ts, 4, Len(ts) - 1))])
    ELSE Unparsable

\* JSON.stringify({ articles: arr }, null, 2)
StringifyPretty(arr) ==
    <<"{", Blank, "articles", ":", Blank>> \o Stringify(arr) \o <<Blank, "}">>

\* the alerts of the pages that read the store
NoneFoundYet == Alert("No discovered articles found yet.", Msg(""))
NoneFound == Alert("No discovered articles found. Run News Discoverer first.", Msg(""))
FailedToLoadLast == Alert("Failed to load last discovered articles", Msg(""))
FailedToLoad == Alert("Failed to load discovered articles", Msg(""))
InvalidJson == Alert("Invalid JSON format for articles", Msg(""))

\* a read that takes a string JSON.parse rejects for an empty list
ReadArticles_Lenient(st) ==
    IF ~st.articles.present \/ st.articles.v = <<>> THEN JList(<<>>)
    ELSE IF Parse(st.articles.v) = Unparsable THEN JList(<<>>)
    ELSE Parse(st.articles.v)

\* raw ? JSON.parse(raw) : [] on localStorage.getItem of the articles key
ReadArticles(st) ==
    IF ~st.articles.present \/ st.articles.v = <<>> THEN JList(<<>>)
    ELSE Parse(st.articles.v)

\* a test that lets an empty list through
NothingFound_EmptyOk(arr) == ~IsArray(arr)

\* !Array.isArray(arr) || arr.length === 0
NothingFound(arr) == ~IsArray(arr) \/ Len(arr.items) = 0

\* the object loadLastDiscovered displays for a stored list
CachedResult(arr) ==
    JObj([status |-> JStr("success"), articles |-> arr,
          total_found |-> JNum(Len(arr.items)), sources_used |-> JList(<<>>),
          success_rate |-> JStr("100%")])

\* what localStorage can hold when the pages load: nothing, an articles
\* string cut short, or one that is not a list
StoredStates ==
    { EmptyStore,
      [articles |-> Item(<<"[", "a1", ",">>), query |-> Item("q1"), at |-> Item(0)],
      [articles |-> Item(<<"null">>), query |-> NoItem, at |-> NoItem] }

\* what the discoverer's executeTask and the backend leave alone on a reader page
callVars == <<pc, initialResponse, status, outcome, issued, net, tasks>>

\* the discoverer's "Load Last Discovered" button, shown with a result
LoadLastDiscovered(c) ==
    /\ Truthy(result[c])
    /\ LET arr == ReadArticles(store) IN
       IF arr = Unparsable
       THEN /\ alerted' = [alerted EXCEPT ![c] = FailedToLoadLast]
            /\ UNCHANGED <<query, result>>
       ELSE IF NothingFound(arr)
       THEN /\ alerted' = [alerted EXCEPT ![c] = NoneFoundYet]
            /\ UNCHANGED <<query, result>>
       ELSE /\ alerted' = [alerted EXCEPT ![c] = NoAlert]
            /\ query' = [query EXCEPT ![c] =
                           IF store.query.present THEN store.query.v ELSE ""]
            /\ result' = [result EXCEPT ![c] = CachedResult(arr)]
    /\ UNCHANGED <<callVars, loading, payload, store, tight, now, published, aside>>

\* the classifier's and the exporter's "Load from News Discoverer" button
LoadFromDiscoverer(p) ==
    /\ LET arr == ReadArticles(store) IN
       IF arr = Unparsable
       THEN /\ alerted' = [alerted EXCEPT ![p] = FailedToLoad]
            /\ UNCHANGED <<discovered, articlesText>>
       ELSE IF NothingFound(arr)
       THEN /\ alerted' = [alerted EXCEPT ![p] = NoneFound]
            /\ UNCHANGED <<discovered, articlesText>>
       ELSE /\ alerted' = [alerted EXCEPT ![p] = NoAlert]
            /\ discovered' = [discovered EXCEPT ![p] = arr]
            /\ articlesText' = [articlesText EXCEPT ![p] = StringifyPretty(arr)]
    /\ UNCHANGED <<callVars, loading, result, query, payload, store, tight, now,
                   published, mounted, options, sent, session, seen, lastSet, beside, timer>>

\* the exporter page mounts: its effect loads the stored list, silently
ExporterMount ==
    /\ ~mounted
    /\ mounted' = TRUE
    /\ LET arr == ReadArticles(store) IN
       IF arr # Unparsable /\ ~NothingFound(arr)
       THEN /\ discovered' = [discovered EXCEPT ![Exporter] = arr]
            /\ articlesText' = [articlesText EXCEPT ![Exporter] = StringifyPretty(arr)]
       ELSE UNCHANGED <<discovered, articlesText>>
    /\ UNCHANGED <<callVars, loading, result, query, payload, store, tight, now,
                   alerted, published, options, sent, session, seen, lastSet, beside, timer>>

\* texts a user types into an articles text area: spaces only, an empty
\* list, a bare list, an object with an articles list, and one with a
\* bracket left open
TypedTexts ==
    { <<Blank>>,
      <<"[", "]">>,
      <<"[", "a1", "]">>,
      <<"{", "articles", ":", "[", "a2", "]", "}">>,
      <<"{", "articles", ":", "[">> }

\* the articles text area of the classifier or of the exporter
SetArticles(p, text) ==
    /\ p = Exporter => mounted
    /\ articlesText[p] # text
    /\ articlesText' = [articlesText EXCEPT ![p] = text]
    /\ UNCHANGED <<callVars, loading, result, query, payload, store, tight, now,
                   alerted, published, discovered, mounted, options, sent,
                   session, seen, lastSet, beside, timer>>

\* the format select box as it is when the page loads
DefaultFormat == "csv"

\* an early return that leaves the flag set
ExportStops_Stuck(a) ==
    /\ alerted' = [alerted EXCEPT ![Exporter] = a]
    /\ result' = [result EXCEPT ![Exporter] = JNull]
    /\ loading' = [loading EXCEPT ![Exporter] = TRUE]
    /\ UNCHANGED <<callVars, payload, discovered, articlesText>>

\* handleExport run to its end without reaching executeTask, raising alert a
ExportStops(a) ==
    /\ alerted' = [alerted EXCEPT ![Exporter] = a]
    /\ result' = [result EXCEPT ![Exporter] = JNull]
    /\ UNCHANGED <<callVars, loading, payload, discovered, articlesText>>

\* handleExport up to the await of executeTask's submission, exporting parsed
ExportSubmits(parsed) ==
    /\ alerted' = [alerted EXCEPT ![Exporter] = NoAlert]
    /\ loading' = [loading EXCEPT ![Exporter] = TRUE]
    /\ result' = [result EXCEPT ![Exporter] = JNull]
    /\ payload' = [payload EXCEPT ![Exporter] =
                     [articles |-> parsed, format |-> DefaultFormat, filename |-> JUndefined]]
    /\ pc' = [pc EXCEPT ![Exporter] = "submit"]
    /\ initialResponse' = [initialResponse EXCEPT ![Exporter] = JUndefined]
    /\ status' = [status EXCEPT ![Exporter] = JUndefined]
    /\ outcome' = [outcome EXCEPT ![Exporter] = Pending]
    /\ issued' = [issued EXCEPT ![Exporter] = [submit |-> 1, status |-> 0, result |-> 0]]
    /\ net' = net \cup {Req(Exporter, "submit", "")}
    /\ tasks' = [t \in TaskIds |->
                   IF /\ HasTaskId(initialResponse[Exporter])
                      /\ t = TaskIdOf(initialResponse[Exporter])
                   THEN FreeTask ELSE tasks[t]]

\* handleExport that looks the stored list up before it looks at the text area
HandleExport_CacheFirst ==
    /\ mounted
    /\ ~loading[Exporter]
    /\ articlesText[Exporter] # <<>>
    /\ LET arr == ReadArticles(store) IN
       IF arr = Unparsable
       THEN ExportStops(Alert(FailurePrefix(Exporter), Msg("Unexpected token")))
       ELSE IF NothingFound(arr)
       THEN ExportStops(NoneFound)
       ELSE IF IsBlank(articlesText[Exporter])
       THEN /\ ExportSubmits(JObj([articles |-> arr]))
            /\ discovered' = [discovered EXCEPT ![Exporter] = arr]
            /\ articlesText' = [articlesText EXCEPT ![Exporter] = StringifyPretty(arr)]
       ELSE IF Parse(articlesText[Exporter]) = Unparsable
       THEN ExportStops(InvalidJson)
       ELSE /\ ExportSubmits(Parse(articlesText[Exporter]))
            /\ UNCHANGED <<discovered, articlesText>>
    /\ UNCHANGED <<query, store, tight, now, published, mounted, options, sent,
                   session, seen, lastSet, beside, timer>>

\* the Export button: handleExport up to the await of executeTask, or to its
\* end when it returns or throws before that
HandleExport ==
    /\ mounted
    /\ ~loading[Exporter]
    /\ articlesText[Exporter] # <<>>
    /\ IF IsBlank(articlesText[Exporter])
       THEN LET arr == ReadArticles(store) IN
            IF arr = Unparsable
            THEN ExportStops(Alert(FailurePrefix(Exporter), Msg("Unexpected token")))
            ELSE IF NothingFound(arr)
            THEN ExportStops(NoneFound)
            ELSE /\ ExportSubmits(JObj([articles |-> arr]))
                 /\ discovered' = [discovered EXCEPT ![Exporter] = arr]
                 /\ articlesText' = [articlesText EXCEPT ![Exporter] = StringifyPretty(arr)]
       ELSE IF Parse(articlesText[Exporter]) = Unparsable
       THEN ExportStops(InvalidJson)
       ELSE /\ ExportSubmits(Parse(articlesText[Exporter]))
            /\ UNCHANGED <<discovered, articlesText>>
    /\ UNCHANGED <<query, store, tight, now, published, mounted, options, sent,
                   session, seen, lastSet, beside, timer>>

\* companySet.split(',').map(c => c.trim()).filter(Boolean) of the text the
\* page loads with
DefaultCompanies == <<"OpenAI", "Anthropic", "Google DeepMind", "Microsoft", "Meta">>

\* Array.isArray(parsed) ? parsed : Array.isArray(parsed?.articles) ? parsed.articles : []
NormalizedArticles(parsed) ==
    IF IsArray(parsed) THEN parsed
    ELSE IF IsArray(OptGet(parsed, "articles")) THEN OptGet(parsed, "articles")
    ELSE JList(<<>>)

\* the Classify button: handleClassify up to the await of apiCall, or to its
\* return on a text that is not JSON
HandleClassify ==
    /\ ~loading[Classifier]
    /\ articlesText[Classifier] # <<>>
    /\ result' = [result EXCEPT ![Classifier] = JNull]
    /\ IF Parse(articlesText[Classifier]) = Unparsable
       THEN /\ alerted' = [alerted EXCEPT ![Classifier] = InvalidJson]
            /\ UNCHANGED <<pc, outcome, issued, net, loading, payload>>
       ELSE /\ alerted' = [alerted EXCEPT ![Classifier] = NoAlert]
            /\ loading' = [loading EXCEPT ![Classifier] = TRUE]
            /\ payload' = [payload EXCEPT ![Classifier] =
                             [articles |-> NormalizedArticles(Parse(articlesText[Classifier])),
                              companies |-> DefaultCompanies]]
            /\ pc' = [pc EXCEPT ![Classifier] = "classify"]
            /\ outcome' = [outcome EXCEPT ![Classifier] = Pending]
            /\ issued' = [issued EXCEPT ![Classifier].submit = 1]
            /\ net' = net \cup {Req(Classifier, "classify", "")}
    /\ UNCHANGED <<initialResponse, status, tasks, query, store, tight, now,
                   published, aside>>

\* the classification response arrives: handleClassify lines 168-177
OnClassifyResponse ==
    \E m \in InFlight(Classifier) :
      /\ pc[Classifier] = "classify"
      /\ m.dir = "resp" /\ m.kind = "classify"
      /\ outcome' = [outcome EXCEPT ![Classifier] = apiCall(m.resp)]
      /\ pc' = [pc EXCEPT ![Classifier] = "done"]
      /\ loading' = [loading EXCEPT ![Classifier] = FALSE]
      /\ payload' = [payload EXCEPT ![Classifier] = NoPayload]
      /\ IF apiCall(m.resp).kind = "return"
         THEN /\ result' = [result EXCEPT ![Classifier] = apiCall(m.resp).value]
              /\ UNCHANGED alerted
         ELSE /\ alerted' = [alerted EXCEPT ![Classifier] =
                               Alert(FailurePrefix(Classifier), apiCall(m.resp).message)]
              /\ UNCHANGED result
      /\ net' = net \ {m}
      /\ UNCHANGED <<initialResponse, status, issued, tasks, query, store, tight, now,
                     published, aside>>

\* bodies the backend gives a classification request
ClassifyBodies == { JObj([status |-> JStr("success"), unclassified |-> JList(<<"a1">>)]) }

\* POST /classify answered with a classification or an error
AnswerClassify ==
    \E m \in InFlight(Classifier) :
      /\ m.dir = "req" /\ m.kind = "classify"
      /\ \E r \in {Http(200, "OK", b) : b \in ClassifyBodies}
                    \cup {Http(500, "Internal Server Error", Malformed)} :
           Answer(m, r)
      /\ UNCHANGED <<pc, initialResponse, status, outcome, issued, tasks,
                     loading, result, query, payload, store, tight, now,
                     alerted, published, aside>>

\* the pages open over whatever localStorage held before
InitCache == \E st \in StoredStates : Start(st, NoOptions)

\* the discoverer page against a backend that answers every submission at
\* once, beside the classifier and the exporter page reading its articles
\* back; the exporter's text area is only ever emptied to spaces
NextCache ==
    \/ \E c \in Solo : SetQuery(c, TypedIn(c))
    \/ \E c \in Solo : Discover(c)
    \/ \E c \in Solo : AnswerSubmitOk(c)
    \/ AnswerExport
    \/ \E c \in Solo \cup {Exporter} : OnSubmitResponse(c)
    \/ StoragePressure
    \/ \E c \in Solo : LoadLastDiscovered(c)
    \/ LoadFromDiscoverer(Classifier)
    \/ ExporterMount
    \/ SetArticles(Exporter, <<Blank>>)
    \/ HandleExport

SpecCache == InitCache /\ [][NextCache]_vars

\* the keys an earlier discovery left in localStorage
EarlierStore ==
    [articles |-> Item(Stringify(JList(<<"a2">>))), query |-> Item("q2"), at |-> Item(0)]

\* the keys a discovery without articles left in localStorage
EmptiedStore ==
    [articles |-> Item(Stringify(JList(<<>>))), query |-> Item("q1"), at |-> Item(0)]

\* the pages open over a localStorage that holds an earlier discovery, with
\* or without articles, or has lost it
InitDown == \E st \in StoredStates \cup {EarlierStore, EmptiedStore} : Start(st, NoOptions)

\* the classifier and the exporter page on their own: the user types the
\* articles, classifies and exports, and the backend answers at once
NextDown ==
    \/ ExporterMount
    \/ \E p \in Readers, text \in TypedTexts : SetArticles(p, text)
    \/ HandleExport
    \/ AnswerExport
    \/ OnSubmitResponse(Exporter)
    \/ HandleClassify
    \/ AnswerClassify
    \/ OnClassifyResponse

SpecDown == InitDown /\ [][NextDown]_vars

\* ------------------------------------------------- the request apiCall builds
HeaderNames == {"Content-Type", "Authorization", "X-Trace"}

\* the values a caller gives each header it sets
HeaderValues(n) ==
    IF n = "Content-Type" THEN {"application/json", "text/plain"}
    ELSE IF n = "Authorization" THEN {"Bearer k"}
    ELSE {"1"}

\* a plain object of headers: for each name its value, or no such property
HeaderObjects ==
    {h \in [HeaderNames -> {NoItem} \cup {Item(v) : v \in {"application/json", "text/plain",
                                                             "Bearer k", "1"}}] :
       \A n \in HeaderNames : h[n].present => h[n].v \in HeaderValues(n)}

\* an object without properties
NoHeaders == [n \in HeaderNames |-> NoItem]

\* { 'Content-Type': 'application/json' }
DefaultHeaders == [NoHeaders EXCEPT !["Content-Type"] = Item("application/json")]

\* { ...a, ...b }: a property of b replaces the one a has under that name
Spread(a, b) == [n \in HeaderNames |-> IF b[n].present THEN b[n] ELSE a[n]]

\* the options objects a caller can hand to apiCall
OptionSets ==
    [given : {TRUE},
     headers : {NoItem} \cup {Item(h) : h \in HeaderObjects},
     method : {NoItem, Item("GET"), Item("POST")},
     body : {NoItem, Item(<<"{", "}">>)}]

\* the second argument of fetch:
\* { headers: { 'Content-Type': 'application/json', ...options.headers }, ...options }
\* in which a headers property of options replaces the merged one
FetchInit(opt) ==
    [headers |-> IF opt.headers.present THEN opt.headers
                 ELSE Item(Spread(DefaultHeaders, NoHeaders)),
     method |-> opt.method,
     body |-> opt.body]

\* apiCall up to its call of fetch
IssueFetch ==
    /\ options.given
    /\ ~sent.called
    /\ sent' = [called |-> TRUE, init |-> FetchInit(options)]
    /\ UNCHANGED <<callVars, loading, result, query, payload, store, tight, now,
                   alerted, published, articlesText, discovered, mounted, options,
                   session, seen, lastSet, beside, timer>>

\* a response arrives and the caller may call apiCall again
FetchSettles ==
    /\ sent.called
    /\ sent' = NotSent
    /\ UNCHANGED <<callVars, loading, result, query, payload, store, tight, now,
                   alerted, published, articlesText, discovered, mounted, options,
                   session, seen, lastSet, beside, timer>>

InitHeaders == \E opt \in OptionSets : Start(EmptyStore, opt)

NextHeaders == IssueFetch \/ FetchSettles

SpecHeaders == InitHeaders /\ [][NextHeaders]_vars

\* POST /api/news/discoverer answered with a non-success status
AnswerSubmitError(c) == AnswerSubmit(c, ErrorResponses)

\* two pages open at once, against a backend that answers a submission with
\* a task handle or an error, and a status call with its task's status or
\* with something else
NextPhases ==
    \/ \E c \in Calls : SetQuery(c, TypedIn(c))
    \/ \E c \in Calls : Discover(c)
    \/ \E c \in Calls : AnswerSubmitAsync(c)
    \/ \E c \in Calls : AnswerSubmitError(c)
    \/ \E c \in Calls : OnSubmitResponse(c)
    \/ \E c \in Calls : ReportStatus(c)
    \/ \E c \in Calls : AnswerStatusOther(c)
    \/ \E c \in Calls : OnStatusResponse(c)
    \/ \E c \in Calls : TimerFires(c)

SpecPhases == Init /\ [][NextPhases]_vars

\* ------------------------------------------- the classification results pane
\* byCompany[c]?.length || 0
LengthOrZero(v) == IF IsArray(v) THEN Len(v.items) ELSE 0

\* result.by_company || {}
ByCompany(res) ==
    IF Truthy(OptGet(res, "by_company")) THEN OptGet(res, "by_company") ELSE JObj(<<>>)

\* companies.reduce((sum, c) => sum + (byCompany[c]?.length || 0), 0)
RECURSIVE SumLengths(_, _)
SumLengths(byCompany, companies) ==
    IF companies = {} THEN 0
    ELSE LET c == CHOOSE c \in companies : TRUE IN
         LengthOrZero(byCompany.f[c]) + SumLengths(byCompany, companies \ {c})

\* totalRelevant of a result: the articles listed under the companies
TotalRelevant(res) == SumLengths(ByCompany(res), DOMAIN ByCompany(res).f)

\* totalInput of the text in the articles text area: the length of the list
\* it parses to, or of its articles field, and 0 for anything else
TotalInput(text) ==
    IF Parse(text) = Unparsable THEN 0
    ELSE IF IsArray(Parse(text)) THEN Len(Parse(text).items)
    ELSE LengthOrZero(OptGet(Parse(text), "articles"))

\* Math.round((n / d) * 100), which rounds a half upwards
RoundedPercent(n, d) == (200 * n + d) \div (2 * d)

\* a percentage that drops the fraction
MatchRate_Truncated(res, text) ==
    IF TotalInput(text) # 0
    THEN (100 * TotalRelevant(res)) \div TotalInput(text)
    ELSE 0

\* matchRate as the results pane computes it for the result and the text
MatchRate(res, text) ==
    IF TotalInput(text) # 0
    THEN RoundedPercent(TotalRelevant(res), TotalInput(text))
    ELSE 0

\* texts for the classifier's text area: an empty list, null, a list of
\* three, an object with a list of eight, and an object left open
RatedTexts ==
    { <<"[", "]">>,
      <<"null">>,
      <<"[", "a1", ",", "a2", ",", "a1", "]">>,
      <<"{", "articles", ":", "[", "a1", ",", "a2", ",", "a1", ",", "a2", ",",
        "a1", ",", "a2", ",", "a1", ",", "a2", "]", "}">>,
      <<"{", "articles", ":", "[">> }

\* classifications the backend returns: nothing matched, two companies
\* with an article each, one of two companies matched, and no by_company
RatedBodies ==
    { JObj([status |-> JStr("success"), by_company |-> JObj(<<>>),
            unclassified |-> JList(<<>>)]),
      JObj([status |-> JStr("success"),
            by_company |-> JObj([OpenAI |-> JList(<<"a1">>), Meta |-> JList(<<"a2">>)]),
            unclassified |-> JList(<<>>)]),
      JObj([status |-> JStr("success"),
            by_company |-> JObj([OpenAI |-> JList(<<"a1">>), Meta |-> JNull]),
            unclassified |-> JList(<<"a2">>)]),
      JObj([status |-> JStr("success"), unclassified |-> JList(<<"a1">>)]) }

\* POST /classify answered with one of the classifications
AnswerRated ==
    \E m \in InFlight(Classifier) :
      /\ m.dir = "req" /\ m.kind = "classify"
      /\ \E b \in RatedBodies : Answer(m, Http(200, "OK", b))
      /\ UNCHANGED <<pc, initialResponse, status, outcome, issued, tasks,
                     loading, result, query, payload, store, tight, now,
                     alerted, published, aside>>

\* the classifier page on its own: the user edits the articles, before and
\* after classifying them
NextRate ==
    \/ \E text \in RatedTexts : SetArticles(Classifier, text)
    \/ HandleClassify
    \/ AnswerRated
    \/ OnClassifyResponse

SpecRate == Init /\ [][NextRate]_vars

\* ------------------------------------------------------------ the WebRAG page
\* session identifiers the backend issues
ServerSessions == {"rag1", "rag2"}

\* the lines of the URL box that are left after trim and filter(Boolean)
NonBlank(line) == line # Blank
Urls(text) == SelectSeq(text, NonBlank)

\* String.trim of a text given as its tokens
RECURSIVE TrimStart(_)
TrimStart(text) ==
    IF Len(text) > 0 /\ Head(text) = Blank THEN TrimStart(Tail(text)) ELSE text
RECURSIVE TrimEnd(_)
TrimEnd(text) ==
    IF Len(text) > 0 /\ text[Len(text)] = Blank
    THEN TrimEnd(SubSeq(text, 1, Len(text) - 1)) ELSE text
Trim(text) == TrimEnd(TrimStart(text))

\* the alerts of the WebRAG page
ProvideUrl == Alert("Provide at least one URL", Msg(""))
IngestFirst == Alert("Ingest at least one URL first", Msg(""))
AskQuestion == Alert("Ask a question", Msg(""))

\* a request of the WebRAG page, with the payload it posts
RagReq(kind, body) ==
    [call |-> WebRag, dir |-> "req", kind |-> kind, id |-> "", body |-> body]

\* everything but the network, the alerts and the state of the WebRAG page
offRag == <<pc, initialResponse, status, outcome, issued, tasks, loading, result, query,
            payload, store, tight, now, published, articlesText, discovered, mounted,
            options, sent, session, seen, lastSet, route, url, timer>>

\* what goes into the URL box and the question box
UrlTexts == { <<Blank>>, <<"u1">>, <<Blank, "u1", "u2">> }
Questions == { <<Blank>>, <<Blank, "why", Blank>> }

SetUrlsText(text) ==
    /\ rag.urlsText # text
    /\ rag' = [rag EXCEPT !.urlsText = text]
    /\ UNCHANGED <<offRag, net, alerted>>

SetQuestion(text) ==
    /\ rag.question # text
    /\ rag' = [rag EXCEPT !.question = text]
    /\ UNCHANGED <<offRag, net, alerted>>

\* a payload that falls back on the session of the context
IngestPayload_Ambient(urls, sessionId) ==
    [urls |-> urls,
     session_id |-> IF Truthy(sessionId) THEN sessionId
                    ELSE IF seen[WebRag].read THEN JStr(seen[WebRag].sessionId)
                    ELSE JUndefined,
     chunk_size |-> 1000, chunk_overlap |-> 200]

\* session_id: sessionId || undefined, a property JSON.stringify leaves out
\* when it is undefined
IngestPayload(urls, sessionId) ==
    [urls |-> urls,
     session_id |-> IF Truthy(sessionId) THEN sessionId ELSE JUndefined,
     chunk_size |-> 1000, chunk_overlap |-> 200]

\* an ask that goes ahead without a session
HandleAsk_Unchecked ==
    /\ ~rag.qaLoading
    /\ ~IsBlank(rag.question)
    /\ rag' = [rag EXCEPT !.qaLoading = TRUE, !.lastMessage = "user"]
    /\ net' = net \cup {RagReq("query", [session_id |-> rag.sessionId,
                                          question |-> Trim(rag.question), top_k |-> 5])}
    /\ alerted' = [alerted EXCEPT ![WebRag] = NoAlert]
    /\ UNCHANGED offRag

\* the Ask button: handleAsk up to the await of apiCall, or to its end when
\* it returns before that
HandleAsk ==
    /\ ~rag.qaLoading
    /\ ~IsBlank(rag.question)
    /\ IF ~Truthy(rag.sessionId)
       THEN /\ alerted' = [alerted EXCEPT ![WebRag] = IngestFirst]
            /\ UNCHANGED <<rag, net>>
       ELSE IF Len(Trim(rag.question)) = 0
       THEN /\ alerted' = [alerted EXCEPT ![WebRag] = AskQuestion]
            /\ UNCHANGED <<rag, net>>
       ELSE /\ rag' = [rag EXCEPT !.qaLoading = TRUE, !.lastMessage = "user"]
            /\ net' = net \cup {RagReq("query", [session_id |-> rag.sessionId,
                                                  question |-> Trim(rag.question),
                                                  top_k |-> 5])}
            /\ alerted' = [alerted EXCEPT ![WebRag] = NoAlert]
    /\ UNCHANGED offRag

\* the Ingest button: handleIngest up to the await of apiCall, or to its end
\* when it returns before that
HandleIngest ==
    /\ ~rag.ingestLoading
    /\ ~IsBlank(rag.urlsText)
    /\ IF Len(Urls(rag.urlsText)) = 0
       THEN /\ alerted' = [alerted EXCEPT ![WebRag] = ProvideUrl]
            /\ UNCHANGED <<rag, net>>
       ELSE /\ rag' = [rag EXCEPT !.ingestLoading = TRUE]
            /\ net' = net \cup {RagReq("ingest", IngestPayload(Urls(rag.urlsText),
                                                                 rag.sessionId))}
            /\ alerted' = [alerted EXCEPT ![WebRag] = NoAlert]
    /\ UNCHANGED offRag

\* what the awaited apiCall hands to the handler that reads a property of
\* its value: the error thrown, also for a body of null
Awaited(r) == IF apiCall(r).kind = "return" /\ apiCall(r).value = JNull
              THEN NullAccess ELSE apiCall(r)

\* the ingest response arrives: handleIngest lines 56-69
OnIngestResponse ==
    \E m \in InFlight(WebRag) :
      /\ m.dir = "resp" /\ m.kind = "ingest"
      /\ IF Awaited(m.resp).kind = "throw"
         THEN /\ alerted' = [alerted EXCEPT ![WebRag] =
                               Alert("WebRAG ingest failed: ", Awaited(m.resp).message)]
              /\ rag' = [rag EXCEPT !.ingestLoading = FALSE]
         ELSE /\ rag' = [rag EXCEPT !.sessionId = Get(Awaited(m.resp).value, "session_id"),
                                    !.chunksCreated =
                                       Get(Awaited(m.resp).value, "chunks_created"),
                                    !.lastMessage = "system",
                                    !.ingestLoading = FALSE]
              /\ UNCHANGED alerted
      /\ net' = net \ {m}
      /\ UNCHANGED offRag

\* the query response arrives: handleAsk lines 93-105
OnQueryResponse ==
    \E m \in InFlight(WebRag) :
      /\ m.dir = "resp" /\ m.kind = "query"
      /\ IF Awaited(m.resp).kind = "throw"
         THEN /\ alerted' = [alerted EXCEPT ![WebRag] =
                               Alert("WebRAG query failed: ", Awaited(m.resp).message)]
              /\ rag' = [rag EXCEPT !.qaLoading = FALSE, !.lastMessage = "assistant"]
         ELSE /\ rag' = [rag EXCEPT !.question = <<>>, !.lastMessage = "system",
                                    !.qaLoading = FALSE]
              /\ UNCHANGED alerted
      /\ net' = net \ {m}
      /\ UNCHANGED offRag

\* what the backend answers an ingest with: a session, no session, null
IngestBodies ==
    { JObj([session_id |-> JStr(sid), chunks_created |-> JNum(3), urls_ingested |-> JNum(1)])
        : sid \in ServerSessions }
    \cup { JObj([chunks_created |-> JNum(0)]), JNull }

QueryBodies == { JObj([answer |-> JStr("because"), sources |-> JList(<<>>)]), JNull }

\* POST /webrag/ingest or /webrag/query answered, with a body or an error
AnswerRag ==
    \E m \in InFlight(WebRag) :
      /\ m.dir = "req"
      /\ \E r \in {Http(200, "OK", b) :
                     b \in IF m.kind = "ingest" THEN IngestBodies ELSE QueryBodies}
                    \cup {Http(500, "Internal Server Error", Malformed)} :
           Answer(m, r)
      /\ UNCHANGED <<offRag, rag, alerted>>

\* the WebRAG page on its own
NextRag ==
    \/ \E text \in UrlTexts : SetUrlsText(text)
    \/ \E text \in Questions : SetQuestion(text)
    \/ HandleIngest
    \/ HandleAsk
    \/ AnswerRag
    \/ OnIngestResponse
    \/ OnQueryResponse

SpecRag == Init /\ [][NextRag]_vars

\* -------------------------------------------------------- the summarizer page
\* what goes into the URL box
UrlBoxes == { <<Blank>>, <<Blank, "u1">> }

\* the word limits the page loads with
DefaultMinWords == 30
DefaultMaxWords == 40

\* what the summarizer page leaves alone beside the state of the calls
offUrl == <<articlesText, discovered, mounted, options, sent, session, seen, lastSet,
            route, rag, timer>>

SetUrl(text) ==
    /\ url # text
    /\ url' = text
    /\ UNCHANGED <<callVars, loading, result, query, payload, store, tight, now,
                   alerted, published, offUrl>>

\* the Summarize button: handleSummarize up to the await of apiCall
HandleSummarize ==
    /\ ~loading[Summarizer]
    /\ ~IsBlank(url)
    /\ loading' = [loading EXCEPT ![Summarizer] = TRUE]
    /\ result' = [result EXCEPT ![Summarizer] = JNull]
    /\ payload' = [payload EXCEPT ![Summarizer] =
                     [url |-> Trim(url), min_words |-> DefaultMinWords,
                      max_words |-> DefaultMaxWords]]
    /\ pc' = [pc EXCEPT ![Summarizer] = "summarize"]
    /\ outcome' = [outcome EXCEPT ![Summarizer] = Pending]
    /\ issued' = [issued EXCEPT ![Summarizer].submit = 1]
    /\ net' = net \cup {Req(Summarizer, "summarize", "")}
    /\ alerted' = [alerted EXCEPT ![Summarizer] = NoAlert]
    /\ UNCHANGED <<initialResponse, status, tasks, query, store, tight, now,
                   published, url, offUrl>>

\* the summary response arrives: handleSummarize lines 490-496
OnSummarizeResponse ==
    \E m \in InFlight(Summarizer) :
      /\ pc[Summarizer] = "summarize"
      /\ m.dir = "resp" /\ m.kind = "summarize"
      /\ outcome' = [outcome EXCEPT ![Summarizer] = apiCall(m.resp)]
      /\ pc' = [pc EXCEPT ![Summarizer] = "done"]
      /\ loading' = [loading EXCEPT ![Summarizer] = FALSE]
      /\ payload' = [payload EXCEPT ![Summarizer] = NoPayload]
      /\ IF apiCall(m.resp).kind = "return"
         THEN /\ result' = [result EXCEPT ![Summarizer] = apiCall(m.resp).value]
              /\ UNCHANGED alerted
         ELSE /\ alerted' = [alerted EXCEPT ![Summarizer] =
                               Alert(FailurePrefix(Summarizer), apiCall(m.resp).message)]
              /\ UNCHANGED result
      /\ net' = net \ {m}
      /\ UNCHANGED <<initialResponse, status, issued, tasks, query, store, tight, now,
                     published, url, offUrl>>

\* bodies the backend gives a summary request
SummaryBodies == { JObj([status |-> JStr("success"), summary |-> JStr("s1")]) }

\* POST /summarize answered with a summary or an error
AnswerSummarize ==
    \E m \in InFlight(Summarizer) :
      /\ m.dir = "req" /\ m.kind = "summarize"
      /\ \E r \in {Http(200, "OK", b) : b \in SummaryBodies}
                    \cup {Http(500, "Internal Server Error", Malformed), FetchFailed} :
           Answer(m, r)
      /\ UNCHANGED <<pc, initialResponse, status, outcome, issued, tasks,
                     loading, result, query, payload, store, tight, now,
                     alerted, published, aside>>

\* ------------------------------------------------------ the session identity
\* values of "user_" + Math.random()... and "session_" + Math.random()...,
\* which are also the strings a setter may be called with
UserIds == {"user_a", "user_b"}
SessionIds == {"session_a", "session_b"}

\* what everything but SessionProvider and its consumers holds
offSession == <<callVars, loading, result, query, payload, store, tight, now,
                alerted, published, articlesText, discovered, mounted, options, sent,
                beside, timer>>

\* a provider that computes the identifiers anew on every render
ContextValue_Recomputed(st, u, s) == [read |-> TRUE, userId |-> u, sessionId |-> s]

\* the context value of a render of SessionProvider whose state is st:
\* useState returns the state and ignores the initial values u and s that
\* this render computed
ContextValue(st, u, s) == [read |-> TRUE, userId |-> st.userId, sessionId |-> st.sessionId]

\* SessionProvider mounts: the first render's values become the state
MountProvider ==
    /\ ~session.mounted
    /\ \E u \in UserIds, s \in SessionIds :
         session' = [mounted |-> TRUE, userId |-> u, sessionId |-> s]
    /\ UNCHANGED <<offSession, seen, lastSet>>

\* useContext(SessionContext): the value of the provider above the consumer,
\* or the default createContext was given, undefined, when there is none
UseContext(st, u, s) == IF st.mounted THEN ContextValue(st, u, s) ELSE JUndefined

UninitializedContext == Throw("Error", Msg("useSession must be used within a SessionProvider"))

\* a hook that hands a consumer without a provider an identity of its own
useSession_Fallback(context) ==
    IF context = JUndefined
    THEN Return([read |-> TRUE, userId |-> "user_a", sessionId |-> "session_a"])
    ELSE Return(context)

\* useSession, from the context value to what the consumer gets
useSession(context) ==
    IF context = JUndefined THEN UninitializedContext ELSE Return(context)

\* the render of a consumer whose useSession threw: it has no identity
Failed(error) == [read |-> FALSE, error |-> error]

\* a render of page p calls useSession, under the provider or without one
UseSession(p) ==
    /\ \E u \in UserIds, s \in SessionIds :
         LET r == useSession(UseContext(session, u, s))
             got == IF r.kind = "return" THEN r.value ELSE Failed(r)
         IN /\ seen[p] # got
            /\ seen' = [seen EXCEPT ![p] = got]
    /\ UNCHANGED <<offSession, session, lastSet>>

\* the provider, its state now st, and the pages that consume the context
\* render again after a setter was called
Rerendered(st) ==
    \E u \in UserIds, s \in SessionIds :
      seen' = [p \in Pages |-> IF seen[p].read THEN ContextValue(st, u, s) ELSE seen[p]]

\* a setter that also starts a new session
SetUserId_NewSession(v) ==
    /\ session.mounted
    /\ \E s \in SessionIds :
         /\ s # session.sessionId
         /\ session' = [session EXCEPT !.userId = v, !.sessionId = s]
    /\ Rerendered(session')
    /\ lastSet' = [lastSet EXCEPT !.userId = v]
    /\ UNCHANGED offSession

\* setUserId(v)
SetUserId(v) ==
    /\ session.mounted
    /\ session' = [session EXCEPT !.userId = v]
    /\ Rerendered(session')
    /\ lastSet' = [lastSet EXCEPT !.userId = v]
    /\ UNCHANGED offSession

\* setSessionId(v)
SetSessionId(v) ==
    /\ session.mounted
    /\ session' = [session EXCEPT !.sessionId = v]
    /\ Rerendered(session')
    /\ lastSet' = [lastSet EXCEPT !.sessionId = v]
    /\ UNCHANGED offSession

NextSession ==
    \/ MountProvider
    \/ \E p \in Pages : UseSession(p)
    \/ \E v \in UserIds : SetUserId(v)
    \/ \E v \in SessionIds : SetSessionId(v)

SpecSession == Init /\ [][NextSession]_vars

\* ------------------------------------------------ the tab, one page at a time
\* the pages the dashboard links to
Linked == Solo \cup Readers \cup {Summarizer, WebRag}

\* a card of the dashboard is followed, under the layout's SessionProvider
OpenPage(p) ==
    /\ route = Home
    /\ session.mounted
    /\ route' = p
    /\ UNCHANGED <<callVars, loading, result, query, payload, store, tight, now,
                   alerted, published, articlesText, discovered, mounted, options, sent,
                   session, seen, lastSet, url, rag, timer>>

\* the tab opens over an empty localStorage or one an earlier discovery filled
InitPages == \E st \in {EmptyStore, EarlierStore} : Start(st, NoOptions)

\* the provider mounts, the user opens one page, and the page shown renders
\* and runs its handlers against its backend
NextPages ==
    \/ MountProvider
    \/ \E p \in Linked : OpenPage(p)
    \/ \E p \in Linked : route = p /\ UseSession(p)
    \/ \E c \in Solo : route = c /\ SetQuery(c, TypedIn(c))
    \/ \E c \in Solo : route = c /\ Discover(c)
    \/ \E c \in Solo : OnSubmitResponse(c)
    \/ \E c \in Solo : OnStatusResponse(c)
    \/ \E c \in Solo : TimerFires(c)
    \/ \E c \in Solo : OnResultResponse(c)
    \/ \E c \in Solo : AnswerSubmitSync(c)
    \/ \E c \in Solo : AnswerSubmitAsync(c)
    \/ \E t \in TaskIds : BackendStep(t)
    \/ \E c \in Solo : ReportStatus(c)
    \/ \E c \in Solo : AnswerStatusOther(c)
    \/ \E c \in Solo : DeliverResult(c)
    \/ \E c \in Solo : AnswerResultOther(c)
    \/ route = Exporter /\ ExporterMount
    \/ \E p \in Readers, text \in TypedTexts : route = p /\ SetArticles(p, text)
    \/ route = Exporter /\ HandleExport
    \/ AnswerExport
    \/ OnSubmitResponse(Exporter)
    \/ route = Classifier /\ HandleClassify
    \/ AnswerClassify
    \/ OnClassifyResponse
    \/ \E text \in UrlBoxes : route = Summarizer /\ SetUrl(text)
    \/ route = Summarizer /\ HandleSummarize
    \/ AnswerSummarize
    \/ OnSummarizeResponse
    \/ \E text \in UrlTexts : route = WebRag /\ SetUrlsText(text)
    \/ \E text \in Questions : route = WebRag /\ SetQuestion(text)
    \/ route = WebRag /\ HandleIngest
    \/ route = WebRag /\ HandleAsk
    \/ AnswerRag
    \/ OnIngestResponse
    \/ OnQueryResponse

SpecPages == InitPages /\ [][NextPages]_vars

\* ----------------------------------------------------------------- claims
\* a response that names a task: an object whose task_id is a non-empty string
CarriesTaskId(v) ==
    /\ v.t = "obj"
    /\ "task_id" \in DOMAIN v.f
    /\ v.f["task_id"].t = "str"
    /\ v.f["task_id"].s # ""

\* the submission of call c was answered with a success status and a JSON body
SubmissionParsed(c) == initialResponse[c] # JUndefined

\* the status a status object reports
Reported(st) == IF st.t = "obj" /\ "status" \in DOMAIN st.f THEN st.f["status"] ELSE JUndefined

\* a success-status response with a JSON body
Parsable(r) == r # FetchFailed /\ ResponseOk(r.status) /\ r.body # Malformed

\* C1: for every successful submission response that contains no task
\* identifier, executeTask returns exactly that response and issues no
\* status call and no result call.
C1_SyncResponseReturned ==
    \A c \in Calls :
      (pc[c] = "done" /\ SubmissionParsed(c) /\ ~CarriesTaskId(initialResponse[c]))
        => /\ outcome[c] = Return(initialResponse[c])
           /\ issued[c].status = 0
           /\ issued[c].result = 0

\* C2: a result call is issued only after a status call for the same task
\* identifier has returned status completed; every status and result request
\* of a call carries the identifier its own submission returned.
C2_ResultOnlyAfterCompleted ==
    /\ \A c \in Calls :
         issued[c].result > 0
           => issued[c].status > 0 /\ Reported(status[c]) = JStr("completed")
    /\ \A m \in net :
         m.kind \in {"status", "result"}
           => /\ CarriesTaskId(initialResponse[m.call])
              /\ m.id = initialResponse[m.call].f["task_id"].s
              /\ m.kind = "result" => Reported(status[m.call]) = JStr("completed")

\* a result call went out after at least two status calls
W_C2 == \E c \in Calls : issued[c].result = 1 /\ issued[c].status >= 2 /\ pc[c] = "result"

\* C3: when the result call of an asynchronous executeTask returns a payload,
\* executeTask resolves to exactly that payload.
C3_ResolvesToResultPayload ==
    [][\A m \in net :
         (m.dir = "resp" /\ m.kind = "result" /\ m \notin net' /\ Parsable(m.resp))
           => /\ pc'[m.call] = "done"
              /\ outcome'[m.call] = Return(m.resp.body)]_vars

\* executeTask returned after a non-terminal status, completed and a result
W_C3 ==
    \E c \in Calls :
      /\ pc[c] = "done" /\ outcome[c].kind = "return"
      /\ issued[c].status >= 2 /\ issued[c].result = 1
      /\ outcome[c].value # initialResponse[c] /\ outcome[c].value # status[c]

\* the message the backend supplied with a failed status, if it supplied one
SuppliedError(st) ==
    IF "error" \in DOMAIN st.f /\ st.f["error"].t = "str" /\ st.f["error"].s # ""
    THEN st.f["error"].s ELSE "Task failed"

\* C4: when a status call returns status failed, executeTask fails with an
\* Error whose message is the backend-supplied error message, or "Task
\* failed" when none (or an empty one) was supplied, and issues no result call.
C4_FailedStatusFails ==
    \A c \in Calls :
      Reported(status[c]) = JStr("failed")
        => /\ pc[c] = "done"
           /\ outcome[c] = Throw("Error", Msg(SuppliedError(status[c])))
           /\ issued[c].result = 0
           /\ \A m \in InFlight(c) : m.kind # "result"

\* executeTask failed with the message the backend gave
W_C4 ==
    \E c \in Calls :
      /\ pc[c] = "done" /\ Reported(status[c]) = JStr("failed")
      /\ outcome[c] = Throw("Error", Msg("timeout upstream"))

\* C5: a response with HTTP status >= 400, whatever its body, makes apiCall
\* fail with an Error carrying that status code; no parsed body is returned.
C5_ErrorStatusThrows ==
    [][\A m \in net :
         (m.dir = "resp" /\ m \notin net' /\ m.resp # FetchFailed /\ m.resp.status >= 400)
           => /\ outcome'[m.call].kind = "throw"
              /\ outcome'[m.call].message =
                   ApiErrorMessage(m.resp.status, m.resp.statusText)
              /\ result'[m.call] = result[m.call]]_vars

\* a 500 response with a parsable body made executeTask fail with status 500
W_C5 ==
    \E c \in Calls :
      /\ pc[c] = "done"
      /\ outcome[c] = Throw("Error", ApiErrorMessage(500, "Internal Server Error"))

\* C6: within one executeTask call at most one request is outstanding at any
\* time, and none while the call waits on its timer or has completed, so no
\* attempt is issued before the previous response has been observed.
C6_OneOutstanding ==
    \A c \in Calls :
      /\ Cardinality(InFlight(c)) <= 1
      /\ pc[c] \in {"idle", "wait", "done"} => InFlight(c) = {}
      /\ pc[c] \in {"submit", "status", "result"}
           => \E m \in InFlight(c) : m.kind = pc[c]

\* a second or later status call is the only thing outstanding
W_C6 ==
    \E c \in Calls :
      /\ pc[c] = "status" /\ issued[c].status >= 2
      /\ InFlight(c) = {Req(c, "status", initialResponse[c].f["task_id"].s)}

\* the task a call was handed by its own submission
OwnTask(c) == tasks[initialResponse[c].f["task_id"].s]

\* C7: with two executeTask calls in flight for different task identifiers,
\* every status and result request of a call carries that call's own
\* identifier, and the call ends with the result, or the failure, of its
\* own task.
C7_CallsIndependent ==
    /\ \A m \in net :
         m.kind \in {"status", "result"}
           => /\ CarriesTaskId(initialResponse[m.call])
              /\ m.id = initialResponse[m.call].f["task_id"].s
    /\ \A c \in Calls :
         (pc[c] = "done" /\ CarriesTaskId(initialResponse[c]))
           => /\ outcome[c].kind = "return"
                   => /\ OwnTask(c).status = "completed"
                      /\ outcome[c].value = OwnTask(c).result
              /\ outcome[c].kind = "throw"
                   => /\ OwnTask(c).status = "failed"
                      /\ outcome[c] = Throw("Error", Msg(SuppliedError(StatusBody(OwnTask(c)))))
    /\ \A c, d \in Calls :
         (c # d /\ CarriesTaskId(initialResponse[c]) /\ CarriesTaskId(initialResponse[d]))
           => initialResponse[c] # initialResponse[d]

\* both calls have their result responses in flight, with different payloads
W_C7 ==
    \E m1, m2 \in net :
      /\ m1.call = 1 /\ m2.call = 2
      /\ m1.dir = "resp" /\ m2.dir = "resp"
      /\ m1.kind = "result" /\ m2.kind = "result"
      /\ m1.id # m2.id
      /\ m1.resp.body # m2.resp.body

\* the poll loop of call c is running
Polling(c) == pc[c] \in {"status", "wait"} /\ CarriesTaskId(initialResponse[c])

\* C8: once the poll loop runs and the backend has the task completed or
\* failed, executeTask eventually terminates, provided every request is
\* answered, the status is reported and timers and responses are scheduled
\* fairly.
C8_PollLoopTerminates ==
    \A c \in Solo :
      (Polling(c) /\ OwnTask(c).status \in {"completed", "failed"}) ~> (pc[c] = "done")

\* a call that polled more than once has terminated on a finished task
W_C8 ==
    \E c \in Solo :
      /\ pc[c] = "done" /\ CarriesTaskId(initialResponse[c])
      /\ issued[c].status >= 2
      /\ OwnTask(c).status \in {"completed", "failed"}

\* C9: a failed submission, status call or result call (fetch rejected, a
\* non-success status, an unparsable body) ends executeTask at once with that
\* same failure: nothing is retried and the call issues no request afterwards.
C9_FailurePropagates ==
    [][/\ \A m \in net :
            (m.dir = "resp" /\ m \notin net' /\ ~Parsable(m.resp))
              => /\ pc'[m.call] = "done"
                 /\ outcome'[m.call] = apiCall(m.resp)
                 /\ issued'[m.call] = issued[m.call]
                 /\ {n \in net' : n.call = m.call} = {}
       /\ \A c \in Calls :
            (pc[c] = "done" /\ pc'[c] = "done")
              => /\ issued'[c] = issued[c]
                 /\ {n \in net' : n.call = c} = {}]_vars

\* a status call that came back unparsable ended the call, with no result call
W_C9 ==
    \E c \in Calls :
      /\ pc[c] = "done" /\ outcome[c].kind = "throw" /\ outcome[c].name = "SyntaxError"
      /\ issued[c].status >= 2 /\ issued[c].result = 0
      /\ InFlight(c) = {}

\* C10: when executeTask fails inside handleDiscover, the page's result is
\* and stays null and the step leaves every persisted key as it was.
C10_NoPartialResult ==
    [][\A c \in Calls :
         (pc[c] # "done" /\ pc'[c] = "done" /\ outcome'[c].kind = "throw")
           => /\ result[c] = JNull
              /\ result'[c] = JNull
              /\ store' = store]_vars

\* a discovery failed on its result call after an earlier one had persisted
W_C10 ==
    \E c \in Calls :
      /\ pc[c] = "done" /\ outcome[c].kind = "throw"
      /\ issued[c].result = 1
      /\ result[c] = JNull
      /\ store.articles.present /\ store.query.present /\ store.at.present

\* the articles key holds what the last persist step that got as far as
\* writing it has written
JustPublished == published # JUndefined /\ store.articles = Item(Stringify(published))

\* every step of a reader of the articles key hands its page the list v
FetchYields(v) ==
    /\ \A p \in Readers :
         LoadFromDiscoverer(p) =>
           (discovered'[p] = v /\ articlesText'[p] = StringifyPretty(v))
    /\ ExporterMount =>
         (discovered'[Exporter] = v /\ articlesText'[Exporter] = StringifyPretty(v))
    /\ \A c \in Calls :
         LoadLastDiscovered(c) => Get(result'[c], "articles") = v

\* C11: publishing an article list v in the persist step of handleDiscover
\* and then fetching the latest artifact (loadFromDiscoverer,
\* loadLastDiscovered, the exporter's auto-load) yields a value deeply equal
\* to v, for every v, the empty list included.
C11_RoundTrip == [][JustPublished => FetchYields(published)]_vars

\* C11 as it holds: the same for every v that is not the empty list.
C11_RoundTripNonEmpty ==
    [][(JustPublished /\ Len(published.items) > 0) => FetchYields(published)]_vars

W_C11 ==
    /\ JustPublished
    /\ published = JList(<<"a1", "a2">>)
    /\ discovered[Classifier] = published
    /\ discovered[Exporter] = published
    /\ Get(result[1], "articles") = published
    /\ Get(result[1], "success_rate") = JStr("100%")

\* the stored articles string is one JSON.parse rejects
Corrupted == store.articles.present /\ Parse(store.articles.v) = Unparsable

\* every step of a reader is the one it takes when it finds nothing stored:
\* the "No discovered articles found" notice, or nothing at all in the
\* exporter's mount effect, and the page as it was
ReadsAsAbsent ==
    /\ LoadFromDiscoverer(Classifier) =>
          (alerted'[Classifier] = NoneFound /\ UNCHANGED <<discovered, articlesText>>)
    /\ \A c \in Calls :
          LoadLastDiscovered(c) => (alerted'[c] = NoneFoundYet /\ UNCHANGED <<result, query>>)
    /\ ExporterMount => UNCHANGED <<discovered, articlesText, alerted>>
    /\ (IsBlank(articlesText[Exporter]) /\ HandleExport) =>
          (alerted'[Exporter] = NoneFound /\ UNCHANGED <<net, discovered, articlesText>>)

\* every step of a reader loads nothing, and all but the mount effect, which
\* stays silent, alert that loading or exporting failed
ReadsAsFailure ==
    /\ LoadFromDiscoverer(Classifier) =>
          (alerted'[Classifier] = FailedToLoad /\ UNCHANGED <<discovered, articlesText>>)
    /\ \A c \in Calls :
          LoadLastDiscovered(c) => (alerted'[c] = FailedToLoadLast /\ UNCHANGED <<result, query>>)
    /\ ExporterMount => UNCHANGED <<discovered, articlesText, alerted>>
    /\ (IsBlank(articlesText[Exporter]) /\ HandleExport) =>
          /\ alerted'[Exporter].prefix = FailurePrefix(Exporter)
          /\ ~loading'[Exporter]
          /\ UNCHANGED <<net, discovered, articlesText>>

Latest(c) == ArticlesOf(outcome[c].value)
Succeeded(c) == pc[c] = "done" /\ outcome[c].kind = "return"

\* C13: after any sequence of successful discoveries the articles key holds
\* one list, whole, the one of the most recent successful discovery, and
\* every reader obtains exactly that list.
C13_StoreHoldsLatest ==
    [][\A c \in Solo :
         Succeeded(c) =>
           (store.articles = Item(Stringify(Latest(c))) /\ FetchYields(Latest(c)))]_vars

\* C13 as it holds: the articles key holds one list, whole, the one of the
\* most recent discovery whose write of the key was accepted, and every
\* reader obtains exactly that list unless it is empty.
C13_StoreHoldsLastWritten ==
    [][published # JUndefined =>
         /\ store.articles = Item(Stringify(published))
         /\ Len(published.items) > 0 => FetchYields(published)]_vars

W_C13 ==
    /\ Succeeded(1)
    /\ Latest(1) # published
    /\ published = JList(<<"a1", "a2">>)
    /\ store.articles = Item(Stringify(published))
    /\ discovered[Classifier] = published
    /\ alerted[Classifier] = NoAlert

\* C14: in every reachable state the three keys of the store describe the
\* same discovery: whenever the store changes, the articles, the query and
\* the timestamp it then holds are those one completed discovery wrote
\* together, also when a write fails partway and when two pages publish.
C14_KeysDescribeOneDiscovery ==
    [][store' # store =>
         \E c \in Calls :
           /\ outcome'[c].kind = "return"
           /\ store' = [articles |-> Item(Stringify(ArticlesOf(outcome'[c].value))),
                        query |-> Item(payload[c].query),
                        at |-> Item(now')]]_vars

\* the text area of page p holds JSON the user typed, not spaces
TypedJson(p) == ~IsBlank(articlesText[p]) /\ Parse(articlesText[p]) # Unparsable

\* C15: whatever the store holds (nothing, an unreadable string, an earlier
\* list), a classify or export action on JSON the user entered issues its
\* request with that input, and the page shows the result the call yields.
C15_DownstreamWithoutCache ==
    [][/\ (TypedJson(Exporter) /\ HandleExport) =>
            /\ Req(Exporter, "submit", "") \in net'
            /\ payload'[Exporter].articles = Parse(articlesText[Exporter])
       /\ (TypedJson(Classifier) /\ HandleClassify) =>
            /\ Req(Classifier, "classify", "") \in net'
            /\ payload'[Classifier].articles =
                 NormalizedArticles(Parse(articlesText[Classifier]))
       /\ \A p \in Readers :
            (pc[p] # "done" /\ pc'[p] = "done" /\ outcome'[p].kind = "return")
              => result'[p] = outcome'[p].value]_vars

W_C15 ==
    /\ ~store.articles.present \/ Corrupted
    /\ \A p \in Readers :
         /\ articlesText[p] \in TypedTexts
         /\ discovered[p] = JList(<<>>)
         /\ pc[p] = "done"
         /\ outcome[p].kind = "return"
         /\ result[p] = outcome[p].value

\* C16: apiCall sends the merge of the default header Content-Type:
\* application/json with the caller's headers, the caller's value winning:
\* for every caller header set without Content-Type the request still
\* carries Content-Type: application/json together with all caller headers.
C16_HeadersMerged ==
    (sent.called /\ options.headers.present)
      => /\ sent.init.headers.present
         /\ sent.init.headers.v = Spread(DefaultHeaders, options.headers.v)
         /\ ~options.headers.v["Content-Type"].present
              => sent.init.headers.v["Content-Type"] = Item("application/json")

\* C17: a success-status response whose body is not valid JSON makes apiCall
\* fail with a decode error (the SyntaxError of response.json()), a kind of
\* error other than the Error it throws for a non-success status, so that a
\* caller can tell the two apart.
C17_DecodeErrorDistinct ==
    [][\A m \in net :
         (m.dir = "resp" /\ m \notin net' /\ m.resp # FetchFailed)
           => /\ (ResponseOk(m.resp.status) /\ m.resp.body = Malformed)
                   => /\ outcome'[m.call].kind = "throw"
                      /\ outcome'[m.call].name = "SyntaxError"
              /\ ~ResponseOk(m.resp.status)
                   => /\ outcome'[m.call].kind = "throw"
                      /\ outcome'[m.call].name = "Error"]_vars

\* executeTask failed on a 200 response whose body was not JSON
W_C17 ==
    \E c \in Calls :
      /\ pc[c] = "done"
      /\ issued[c].status > 0
      /\ outcome[c] = Throw("SyntaxError", Msg("Unexpected token"))

\* executeTask of page c failed on its submission, or on a later call
FailedSubmitting(c) == pc[c] = "done" /\ outcome[c].kind = "throw" /\ issued[c].status = 0
FailedPolling(c) == pc[c] = "done" /\ outcome[c].kind = "throw" /\ issued[c].status > 0

\* the error is the one apiCall throws for a non-success status
IsApiError(o) == o.kind = "throw" /\ o.message.text = "API Error"

\* C18: for the same underlying HTTP failure, the error the caller of
\* executeTask receives, and the message the page shows, differ between a
\* failure of the submission and a failure while polling.
C18_PhasesDistinguishable ==
    \A c, d \in Calls :
      ( /\ FailedSubmitting(c) /\ IsApiError(outcome[c])
        /\ FailedPolling(d) /\ IsApiError(outcome[d])
        /\ outcome[c].message.status = outcome[d].message.status )
        => /\ outcome[c] # outcome[d]
           /\ alerted[c] # alerted[d]

\* C19: under one mounted SessionProvider any two reads of the session
\* identity with no set between them return identical {userId, sessionId},
\* across re-renders and across all consuming pages.
C19_ReadsAgree ==
    /\ [](\A p, q \in Pages : (seen[p].read /\ seen[q].read) => seen[p] = seen[q])
    /\ [][\A p \in Pages :
            (seen[p].read /\ seen'[p].read /\ session' = session) => seen'[p] = seen[p]]_vars

W_C19 ==
    /\ session.mounted
    /\ \A p \in Pages : seen[p].read /\ seen[p].userId = session.userId
    /\ lastSet = [userId |-> "", sessionId |-> ""]

\* C20: after a set of one field the next read returns the value set for
\* that field and the unchanged value of the other; after any sequence of
\* sets each field reads as the last value set on it.
C20_LastWriteWins ==
    /\ [](\A p \in Pages :
           seen[p].read =>
             /\ lastSet.userId # "" => seen[p].userId = lastSet.userId
             /\ lastSet.sessionId # "" => seen[p].sessionId = lastSet.sessionId)
    /\ [][/\ \A v \in UserIds :
               SetUserId(v) =>
                 \A u \in UserIds, s \in SessionIds :
                   /\ ContextValue(session', u, s).userId = v
                   /\ ContextValue(session', u, s).sessionId = session.sessionId
          /\ \A v \in SessionIds :
               SetSessionId(v) =>
                 \A u \in UserIds, s \in SessionIds :
                   /\ ContextValue(session', u, s).sessionId = v
                   /\ ContextValue(session', u, s).userId = session.userId]_vars

W_C20 ==
    /\ session.mounted
    /\ lastSet.userId # "" /\ lastSet.sessionId # ""
    /\ \A p \in Pages :
         /\ seen[p].read
         /\ seen[p].userId = lastSet.userId
         /\ seen[p].sessionId = lastSet.sessionId

\* C21: reading the session identity outside an active provider scope never
\* yields an identity: useSession fails with the error "useSession must be
\* used within a SessionProvider"; inside a provider scope it never fails
\* and yields the provider's identity.
C21_OutsideScopeFails ==
    /\ [](~session.mounted => \A p \in Pages : ~seen[p].read)
    /\ [][\A p \in Pages :
            UseSession(p) =>
              IF session.mounted
              THEN /\ seen'[p].read
                   /\ seen'[p].userId = session.userId
                   /\ seen'[p].sessionId = session.sessionId
              ELSE seen'[p] = Failed(UninitializedContext)]_vars

\* one page rendered before the provider was there and failed, another
\* rendered under it and got the identity
W_C21 ==
    /\ session.mounted
    /\ seen[1] = Failed(UninitializedContext)
    /\ seen[2].read /\ seen[2].userId = session.userId

\* the number of articles the text in the classifier's text area holds
InputArticles ==
    IF Parse(articlesText[Classifier]) = Unparsable THEN 0
    ELSE Len(NormalizedArticles(Parse(articlesText[Classifier])).items)

\* the results pane of the classifier page is on screen
PaneShown == Truthy(result[Classifier])

StatusCallIssued(c) ==
    \E m \in net' \ net : m.call = c /\ m.dir = "req" /\ m.kind = "status"

\* this step takes the submission response of call c
SubmissionObserved(c) ==
    \E m \in net \ net' : m.call = c /\ m.dir = "resp" /\ m.kind = "submit"

\* C23: in an asynchronous executeTask the first status call is issued in
\* the step that takes the submission response, with no wait; every later
\* status call is issued when the one 2000 ms timeout armed after the
\* previous status response fires; and a wait always ends in another
\* status call.
C23_FixedInterval ==
    [][\A c \in Calls :
         /\ StatusCallIssued(c) =>
              \/ /\ pc[c] = "submit" /\ SubmissionObserved(c)
                 /\ issued[c].status = 0
                 /\ ~timer[c].armed
              \/ /\ pc[c] = "wait"
                 /\ issued[c].status >= 1
                 /\ timer[c] = [armed |-> TRUE, delay |-> 2000]
         /\ (pc'[c] = "wait" /\ pc[c] # "wait") =>
              /\ pc[c] = "status"
              /\ Reported(status'[c]) \notin {JStr("completed"), JStr("failed")}
              /\ timer'[c] = [armed |-> TRUE, delay |-> 2000]
         /\ (pc[c] = "wait" /\ pc'[c] # "wait") => StatusCallIssued(c)
         /\ timer'[c].armed <=> pc'[c] = "wait"]_vars

\* a call waits for the second time, its timeout armed
W_C23 ==
    \E c \in Calls :
      /\ pc[c] = "wait"
      /\ issued[c].status >= 2
      /\ timer[c] = [armed |-> TRUE, delay |-> 2000]

\* a status response whose body is an object that reports neither completed
\* nor failed: pending, running, no status at all, or a word such as cancelled
NonTerminal(r) ==
    /\ Parsable(r)
    /\ r.body.t = "obj"
    /\ Reported(r.body) \notin {JStr("completed"), JStr("failed")}

\* C24: whenever a status call returns a status other than completed or
\* failed, executeTask neither returns nor fails nor asks for the result: it
\* waits, whatever the number of status calls made so far, and every wait
\* leads to another status call, so a task that never completes or fails is
\* polled for ever.
C24_PollsForever ==
    /\ [][\A m \in net :
            (m.dir = "resp" /\ m.kind = "status" /\ m \notin net' /\ NonTerminal(m.resp))
              => /\ pc'[m.call] = "wait"
                 /\ outcome'[m.call] = Pending
                 /\ loading'[m.call]
                 /\ issued'[m.call] = issued[m.call]]_vars
    /\ \A c \in Solo : (pc[c] = "wait") ~> (pc[c] = "status")

\* a cancelled task is still being polled after the counter has saturated
W_C24 ==
    \E c \in Solo :
      /\ pc[c] = "wait"
      /\ Reported(status[c]) = JStr("cancelled")
      /\ issued[c].status = MaxPolls
      /\ outcome[c] = Pending

\* this step issues a request of the given kind for call c
Issues(c, kind) == \E m \in net' \ net : m.call = c /\ m.dir = "req" /\ m.kind = kind

\* call c has seen a status of completed or failed
TerminalObserved(c) == Reported(status[c]) \in {JStr("completed"), JStr("failed")}

\* C25: every executeTask call issues exactly one submission POST, when it
\* starts; at most one task-result call; no status call once it has observed
\* completed or failed; and each status and result call carries the task
\* identifier that the call's own submission returned.
C25_OneSubmitOneResult ==
    /\ [](\A c \in Calls :
            /\ pc[c] # "idle" => issued[c].submit = 1
            /\ issued[c].result <= 1
            /\ TerminalObserved(c) => \A m \in InFlight(c) : m.kind # "status")
    /\ [](\A m \in net :
            m.kind \in {"status", "result"}
              => /\ CarriesTaskId(initialResponse[m.call])
                 /\ m.id = initialResponse[m.call].f["task_id"].s)
    /\ [][\A c \in Calls :
            /\ Issues(c, "submit") => (pc[c] \in {"idle", "done"} /\ pc'[c] = "submit")
            /\ Issues(c, "result") => (issued[c].result = 0 /\ issued'[c].result = 1)
            /\ Issues(c, "status") => ~TerminalObserved(c)]_vars

\* one call has ended on its result and the other on a failed status, each
\* after polling more than once
W_C25 ==
    \E c, d \in Calls :
      /\ c # d
      /\ pc[c] = "done" /\ issued[c] = [submit |-> 1, status |-> MaxPolls, result |-> 1]
      /\ pc[d] = "done" /\ issued[d] = [submit |-> 1, status |-> MaxPolls, result |-> 0]
      /\ Reported(status[d]) = JStr("failed")
      /\ initialResponse[c] # initialResponse[d]

\* the articles field of a result when it is a list, and the empty list for
\* a result without one: a bare list, or an object with other fields only
ArticlesField(v) ==
    IF v.t = "obj" /\ "articles" \in DOMAIN v.f /\ v.f["articles"].t = "list"
    THEN v.f["articles"]
    ELSE JList(<<>>)

\* this step ends a handleDiscover of page c with a result
DiscoverySucceeds(c) == pc[c] # "done" /\ pc'[c] = "done" /\ outcome'[c].kind = "return"

\* C26: after every successful handleDiscover the stored article list is
\* the articles field of the terminal result when that is a list and the
\* empty list otherwise; a stored empty list is reported by every reader as
\* "no discovered articles".
C26_StoredIsArticlesField ==
    [][/\ \A c \in Solo :
            DiscoverySucceeds(c) =>
              store'.articles = Item(Stringify(ArticlesField(outcome'[c].value)))
       /\ store.articles = Item(<<"[", "]">>) => ReadsAsAbsent]_vars

\* C26 as it holds: the same, unless localStorage, at its quota, rejects the
\* write of the articles key, which then keeps the value it had; a stored
\* empty list makes every reader load nothing, and all but the exporter's
\* silent mount effect alert that no discovered articles were found.
C26_StoredUnlessRejected ==
    [][/\ \A c \in Solo :
            DiscoverySucceeds(c) =>
              \/ store'.articles = Item(Stringify(ArticlesField(outcome'[c].value)))
              \/ tight /\ store'.articles = store.articles
       /\ store.articles = Item(<<"[", "]">>) => ReadsAsAbsent]_vars

\* a discovery that returned a bare list has replaced the list the
\* classifier had loaded by the empty list, and the classifier finds none
W_C26 ==
    /\ Succeeded(1)
    /\ outcome[1].value = JList(<<"a1">>)
    /\ store.articles = Item(<<"[", "]">>)
    /\ discovered[Classifier] = JList(<<"a1", "a2">>)
    /\ alerted[Classifier] = NoneFound

\* the articles key holds a list that is not empty
CachedNonEmpty ==
    /\ store.articles.present
    /\ Parse(store.articles.v).t = "list"
    /\ Len(Parse(store.articles.v).items) > 0

\* the exporter's handler ends without a request, its result empty
NoExport ==
    /\ net' = net
    /\ result'[Exporter] = JNull
    /\ ~loading'[Exporter]
    /\ alerted'[Exporter] # NoAlert

\* the exporter's handler issues its request for the input v
ExportOf(v) ==
    /\ net' = net \cup {Req(Exporter, "submit", "")}
    /\ payload'[Exporter].articles = v
    /\ loading'[Exporter]

\* C27: the exporter issues an export request only for an input that is
\* there: for the JSON in the text area when that is not blank and parses;
\* for {articles: <cached list>} when the text area is blank and the cache
\* holds a list that is not empty; and in every other case (text area blank
\* and the cache absent, unreadable or an empty list; text area not JSON)
\* it issues no request and the result stays empty.
C27_ExportNeedsInput ==
    [][HandleExport =>
         IF IsBlank(articlesText[Exporter])
         THEN IF CachedNonEmpty
              THEN ExportOf(JObj([articles |-> Parse(store.articles.v)]))
              ELSE NoExport
         ELSE IF Parse(articlesText[Exporter]) = Unparsable
              THEN NoExport /\ alerted'[Exporter] = InvalidJson
              ELSE ExportOf(Parse(articlesText[Exporter]))]_vars

\* the text area blank over a cached empty list: nothing was exported
W_C27 ==
    /\ mounted
    /\ articlesText[Exporter] = <<Blank>>
    /\ store.articles = Item(<<"[", "]">>)
    /\ alerted[Exporter] = NoneFound
    /\ result[Exporter] = JNull
    /\ pc[Exporter] = "idle"
    /\ InFlight(Exporter) = {}

\* C28: on the WebRAG page no query request is issued before an ingest has
\* succeeded: every query request carries the page's session id, which is
\* not empty; the page's session id changes only when an ingest response
\* is taken that apiCall accepts, and then to the session_id of that
\* response; a failed ingest leaves it as it was.
C28_QueryNeedsIngest ==
    /\ [](\A m \in net :
            (m.call = WebRag /\ m.dir = "req" /\ m.kind = "query")
              => /\ m.body.session_id.t = "str"
                 /\ m.body.session_id.s \in ServerSessions)
    /\ [][/\ \A m \in net' \ net :
               (m.call = WebRag /\ m.dir = "req" /\ m.kind = "query")
                 => m.body.session_id = rag.sessionId
          /\ rag'.sessionId # rag.sessionId =>
               \E m \in net \ net' :
                 /\ m.call = WebRag /\ m.dir = "resp" /\ m.kind = "ingest"
                 /\ Parsable(m.resp) /\ m.resp.body.t = "obj"
                 /\ rag'.sessionId = Get(m.resp.body, "session_id")
          /\ \A m \in net \ net' :
               (m.call = WebRag /\ m.dir = "resp" /\ m.kind = "ingest"
                  /\ ~(Parsable(m.resp) /\ m.resp.body.t = "obj"))
                 => /\ rag'.sessionId = rag.sessionId
                    /\ ~rag'.ingestLoading]_vars

\* a query is out under the session of the first ingest while a second
\* ingest, sent with that session, has failed
W_C28 ==
    /\ rag.sessionId = JStr("rag1")
    /\ RagReq("query", [session_id |-> JStr("rag1"), question |-> <<"why">>, top_k |-> 5])
         \in net
    /\ alerted[WebRag].prefix = "WebRAG ingest failed: "
    /\ ~rag.ingestLoading

\* the strings of the identity SessionProvider holds
Ambient == IF session.mounted THEN {session.userId, session.sessionId} ELSE {}

Tokens(text) == {text[i] : i \in 1..Len(text)}

\* the strings inside a value
RECURSIVE Leaves(_)
Leaves(v) ==
    IF v.t = "str" THEN {v.s}
    ELSE IF v.t = "list" THEN Tokens(v.items)
    ELSE IF v.t = "obj" THEN UNION {Leaves(v.f[k]) : k \in DOMAIN v.f}
    ELSE {}

\* the property names and the strings of the payload page c has posted
Posted(c) ==
    IF ~loading[c] THEN [names |-> {}, strings |-> {}]
    ELSE IF c = Exporter
    THEN [names |-> DOMAIN payload[c],
          strings |-> Leaves(payload[c].articles) \cup {payload[c].format}
                        \cup Leaves(payload[c].filename)]
    ELSE IF c = Classifier
    THEN [names |-> DOMAIN payload[c],
          strings |-> Leaves(payload[c].articles) \cup Tokens(payload[c].companies)]
    ELSE IF c = Summarizer
    THEN [names |-> DOMAIN payload[c], strings |-> Tokens(payload[c].url)]
    ELSE [names |-> DOMAIN payload[c], strings |-> {payload[c].query}]

\* the strings of the body of a request of the WebRAG page
RagStrings(m) ==
    Leaves(m.body.session_id)
      \cup (IF m.kind = "ingest" THEN Tokens(m.body.urls) ELSE Tokens(m.body.question))

ServerIssued == {JStr(sid) : sid \in ServerSessions}

\* C29: the identity of the session context is attached to no request and
\* changed by no page: the payload a page has posted has no property named
\* after the identity and holds neither of its strings; a request of the
\* WebRAG page holds neither of them, its session_id is undefined while no
\* ingest has succeeded and otherwise the server-issued session id the page
\* holds; and once the provider has mounted no step changes its state or
\* calls a setter.
C29_IdentityStaysAmbient ==
    /\ [](\A c \in Linked \ {WebRag} :
            /\ Posted(c).names \cap {"userId", "sessionId", "user_id", "session_id"} = {}
            /\ Posted(c).strings \cap Ambient = {})
    /\ [](\A m \in net :
            (m.call = WebRag /\ m.dir = "req")
              => /\ DOMAIN m.body \cap {"userId", "sessionId", "user_id"} = {}
                 /\ RagStrings(m) \cap Ambient = {})
    /\ [](rag.sessionId \in {JNull, JUndefined} \cup ServerIssued)
    /\ [][/\ \A m \in net' \ net :
               (m.call = WebRag /\ m.dir = "req" /\ m.kind = "ingest")
                 => /\ rag.chunksCreated = JNull => m.body.session_id = JUndefined
                    /\ m.body.session_id # JUndefined
                         => m.body.session_id = rag.sessionId
                              /\ rag.sessionId \in ServerIssued
          /\ session.mounted => session' = session /\ lastSet' = lastSet]_vars

\* the WebRAG page has read the identity and, its first ingest answered
\* with a session, has sent a second ingest under that session
W_C29 ==
    /\ route = WebRag
    /\ seen[WebRag].read
    /\ seen[WebRag].sessionId = session.sessionId
    /\ rag.sessionId = JStr("rag1")
    /\ \E m \in net : /\ m.call = WebRag /\ m.dir = "req" /\ m.kind = "ingest"
                      /\ m.body.session_id = JStr("rag1")

\* page c has a request out or a poll timer armed
Busy(c) == InFlight(c) # {} \/ timer[c].armed

\* the WebRAG page has a request of this kind out
RagBusy(kind) == \E m \in InFlight(WebRag) : m.kind = kind

\* C30: the loading flag of a page is set exactly while its action has a
\* request out or is waiting to poll again, the WebRAG page's two flags
\* each for its own request; and a handler that ends with an alert, on a
\* failed request or on an early return, ends with its flag cleared.
C30_LoadingWhileBusy ==
    /\ [](\A c \in Linked \ {WebRag} : loading[c] <=> Busy(c))
    /\ []((rag.ingestLoading <=> RagBusy("ingest")) /\ (rag.qaLoading <=> RagBusy("query")))
    /\ [][/\ \A c \in Linked \ {WebRag} :
               (alerted'[c] # alerted[c] /\ alerted'[c] # NoAlert) => ~loading'[c]
          /\ (alerted'[WebRag] # alerted[WebRag] /\ alerted'[WebRag] # NoAlert)
               => IF alerted'[WebRag].prefix \in {ProvideUrl.prefix, "WebRAG ingest failed: "}
                  THEN ~rag'.ingestLoading
                  ELSE ~rag'.qaLoading]_vars

\* an ask without a session returned at once while an ingest is still out
W_C30 ==
    /\ route = WebRag
    /\ alerted[WebRag] = IngestFirst
    /\ ~rag.qaLoading
    /\ rag.ingestLoading
    /\ RagBusy("ingest")

====
